---- MODULE Spec2Model ----
(***************************************************************************)
(* Model of the vehicle-booking API (vehicle-api): the booking and vehicle *)
(* handlers (create, list, update, get), the validators they call, the     *)
(* overlap query and the document store they run against.                  *)
(*                                                                         *)
(* A handler is modelled from the route down: the role guard of the route  *)
(* (#[protect(...)]), the controller, the validator and every storage call *)
(* the controller makes.  The response of the handler is kept in           *)
(* `response` until it is delivered to the caller; requests are processed  *)
(* one at a time in Spec (a handler runs to completion, then its response  *)
(* is delivered, then the next request starts).  In SpecConcurrent the     *)
(* requests of two clients run side by side, one storage call per step;    *)
(* `inflight` holds how far each has come.                                 *)
(***************************************************************************)
EXTENDS Integers, Sequences, FiniteSets, TLC

VARIABLES
    bookings,   \* the "bookings" collection: documents in insertion order
    vehicles,   \* the "vehicles" collection
    response,   \* the response of the handler that just ran, not yet delivered
    inflight,   \* per client, the request it has in progress and its position
    MONGODB_CLIENT  \* the cell that holds the store client once it is initialized

vars == <<bookings, vehicles, response, inflight, MONGODB_CLIENT>>

(***************************************************************************)
(* Bounds of the model.                                                    *)
(***************************************************************************)
\* Largest number of documents the bookings collection holds in the model.
MaxBookings == 2

\* Largest number of documents the vehicles collection holds in the model.
MaxVehicles == 3

\* The width in bits the model gives an i64.
IntBits == 6

\* The longest text of a sort parameter, in characters.
MaxSortLen == 5

\* Largest number of criteria a vehicle list names at once.
MaxCriteria == 2

\* Most clients of the store built and pinged with success in the model.
MaxConnects == 2

(***************************************************************************)
(* Option<T>: None is the empty sequence, Some(x) the one-element one.     *)
(***************************************************************************)
None == <<>>
Some(x) == <<x>>
IsSome(o) == o /= <<>>
Unwrap(o) == o[1]

(***************************************************************************)
(* Identity (authentication/middleware.rs): the API key decides the role   *)
(* and the user id; both customer keys map to the role Customer.           *)
(* (authentication/identity.rs declares the customer variants of Role as   *)
(* Customer1 and Customer2; the middleware, the validators and the route   *)
(* guards all name Role::Customer, which is what the model follows.)       *)
(***************************************************************************)
Roles == {"Admin", "CarManager", "MotorbikeManager", "Customer"}

StaffRoles == {"Admin", "CarManager", "MotorbikeManager"}

Identity(role, user_id) == [role |-> role, user_id |-> user_id]

api_key_auth_middleware(key) ==
    CASE key = "Admin"            -> Identity("Admin", "Admin")
      [] key = "CarManager"       -> Identity("CarManager", "CarManager")
      [] key = "MotorbikeManager" -> Identity("MotorbikeManager", "MotorbikeManager")
      [] key = "Customer1"        -> Identity("Customer", "customer_user_1")
      [] key = "Customer2"        -> Identity("Customer", "customer_user_2")

ApiKeys == {"Admin", "CarManager", "MotorbikeManager", "Customer1", "Customer2"}

Identities == {api_key_auth_middleware(k) : k \in ApiKeys}

(***************************************************************************)
(* AppError kinds (error.rs) and the HTTP status each maps to.             *)
(***************************************************************************)
ErrorKinds == {"NotFound", "Forbidden", "Unauthorized", "InternalServerError", "BadRequest"}

status_code(kind) ==
    CASE kind = "NotFound"            -> 404
      [] kind = "Forbidden"           -> 403
      [] kind = "Unauthorized"        -> 401
      [] kind = "InternalServerError" -> 500
      [] kind = "BadRequest"          -> 400

Ok(value) == [kind |-> "Ok", value |-> value]
Err(kind) == [kind |-> kind, value |-> None]
IsOk(r) == r.kind = "Ok"

(***************************************************************************)
(* BookingStatus (models/booking.rs): Pending | Confirmed |                *)
(* Rejected(reason) | Cancelled(reason).  The tag is the serialized        *)
(* status string (rename_all = "UPPERCASE"), the reason its content.       *)
(***************************************************************************)
Pending == [tag |-> "PENDING", reason |-> None]
Confirmed == [tag |-> "CONFIRMED", reason |-> None]
Rejected(r) == [tag |-> "REJECTED", reason |-> Some(r)]
Cancelled(r) == [tag |-> "CANCELLED", reason |-> Some(r)]

\* Reason strings the requests of the model carry.
Reasons == {"r1", "r2"}

BookingStatus ==
    {Pending, Confirmed} \cup {Rejected(r) : r \in Reasons} \cup {Cancelled(r) : r \in Reasons}

(***************************************************************************)
(* NaiveDate (chrono).  A date is <<year, month, day>>; its order is the   *)
(* calendar order, which is what `from_date >= to_date` compares in        *)
(* validate_booking_creation.                                              *)
(***************************************************************************)
Date(y, m, d) == <<y, m, d>>

DateLt(a, b) ==
    \/ a[1] < b[1]
    \/ a[1] = b[1] /\ a[2] < b[2]
    \/ a[1] = b[1] /\ a[2] = b[2] /\ a[3] < b[3]

DateLeq(a, b) == a = b \/ DateLt(a, b)

(***************************************************************************)
(* bson::to_bson(&NaiveDate): chrono serializes a NaiveDate as the string  *)
(* of its Debug form, so from_date and to_date are stored, and compared by *)
(* the store, as strings.  A string is modelled as the sequence of its     *)
(* character codes ('0' is 48, '+' is 43, '-' is 45).  The year is written *)
(* with four digits when it lies in 0..9999 and otherwise with an explicit *)
(* sign ("{:+05}": "+10000", "-0001"); month and day take two digits.      *)
(* Reading a document back parses the same string into the same date.      *)
(***************************************************************************)
RECURSIVE Digits(_, _)
Digits(n, width) ==
    IF width <= 1 /\ n < 10
    THEN <<48 + n>>
    ELSE Append(Digits(n \div 10, width - 1), 48 + (n % 10))

YearToString(y) ==
    IF y >= 0 /\ y <= 9999
    THEN Digits(y, 4)
    ELSE IF y > 9999 THEN <<43>> \o Digits(y, 4) ELSE <<45>> \o Digits(0 - y, 4)

to_bson(date) ==
    YearToString(date[1]) \o <<45>> \o Digits(date[2], 2) \o <<45>> \o Digits(date[3], 2)

(***************************************************************************)
(* The store's order on strings ($lte, $gte with no collation): byte by    *)
(* byte, a proper prefix first.                                            *)
(***************************************************************************)
RECURSIVE BsonStringLeq(_, _)
BsonStringLeq(a, b) ==
    IF a = <<>> THEN TRUE
    ELSE IF b = <<>> THEN FALSE
    ELSE IF a[1] < b[1] THEN TRUE
    ELSE IF a[1] > b[1] THEN FALSE
    ELSE BsonStringLeq(Tail(a), Tail(b))

(***************************************************************************)
(* Query documents.  A document is a function from field names to values.  *)
(* A filter maps a field name to a condition [op, value] ("$eq" is the     *)
(* implicit equality of { field: value }), and "$and" / "$or" to a         *)
(* sequence of filters.  "$in" holds the sequence of the admitted values;  *)
(* Operators holds a sub-document of "$gte" / "$lte" entries on numbers    *)
(* and datetimes, in the order they were inserted.                         *)
(***************************************************************************)
Eq(v) == [op |-> "$eq", value |-> v]
Lte(v) == [op |-> "$lte", value |-> v]
Gte(v) == [op |-> "$gte", value |-> v]
In(vals) == [op |-> "$in", value |-> vals]
Operators(range_doc) == [op |-> "$operators", value |-> range_doc]

EmptyDocument == [k \in {} |-> None]

FieldMatches(doc, field, cond) ==
    /\ field \in DOMAIN doc
    /\ CASE cond.op = "$eq"  -> doc[field] = cond.value
         [] cond.op = "$lte" -> BsonStringLeq(doc[field], cond.value)
         [] cond.op = "$gte" -> BsonStringLeq(cond.value, doc[field])
         [] cond.op = "$in"  -> \E i \in 1..Len(cond.value) : doc[field] = cond.value[i]
         [] cond.op = "$operators" ->
                \A i \in 1..Len(cond.value) :
                    CASE cond.value[i].key = "$gte" -> cond.value[i].value <= doc[field]
                      [] cond.value[i].key = "$lte" -> doc[field] <= cond.value[i].value

RECURSIVE Matches(_, _)
Matches(doc, filter) ==
    \A k \in DOMAIN filter :
        CASE k = "$and" -> \A i \in 1..Len(filter[k]) : Matches(doc, filter[k][i])
          [] k = "$or"  -> \E i \in 1..Len(filter[k]) : Matches(doc, filter[k][i])
          [] OTHER      -> FieldMatches(doc, k, filter[k])

(***************************************************************************)
(* Booking (models/booking.rs) and the document it serializes to: the id   *)
(* as "_id", the status flattened into "status" and, when the variant has  *)
(* one, "reason".                                                          *)
(***************************************************************************)
Booking(id, vehicle_id, customer_id, from_date, to_date, status, order_date) ==
    [id |-> id, vehicle_id |-> vehicle_id, customer_id |-> customer_id,
     from_date |-> from_date, to_date |-> to_date, status |-> status,
     order_date |-> order_date]

BookingDocument(b) ==
    (IF IsSome(b.id) THEN ("_id" :> Unwrap(b.id)) ELSE EmptyDocument)
    @@ ("vehicle_id" :> b.vehicle_id)
    @@ ("customer_id" :> b.customer_id)
    @@ ("from_date" :> to_bson(b.from_date))
    @@ ("to_date" :> to_bson(b.to_date))
    @@ ("status" :> b.status.tag)
    @@ (IF IsSome(b.status.reason) THEN ("reason" :> Unwrap(b.status.reason)) ELSE EmptyDocument)
    @@ ("order_date" :> b.order_date)

\* Mutant of BookingNew: a new booking starts Confirmed.
BookingNew_Confirmed(request, customer_id, now) ==
    Booking(None, request.vehicle_id, customer_id, request.from_date, request.to_date,
            Confirmed, now)

\* Booking::new: the id unset, the status Pending, the customer the caller,
\* order_date the time of the call.
BookingNew(request, customer_id, now) ==
    Booking(None, request.vehicle_id, customer_id, request.from_date, request.to_date,
            Pending, now)

CreateBookingRequest(vehicle_id, from_date, to_date) ==
    [vehicle_id |-> vehicle_id, from_date |-> from_date, to_date |-> to_date]

\* UpdateBookingRequest: status is Option<BookingStatus>.
UpdateBookingRequest(status) == [status |-> status]

(***************************************************************************)
(* Vehicle (models/vehicle.rs).  The enumerations are the strings their    *)
(* variants serialize to.  models/vehicle.rs declares Brand with TESLA and *)
(* MERCEDES only; validator/vehicle.rs also matches six motorbike brands,  *)
(* which the model takes as variants of Brand too.  The metadata leaves    *)
(* out the brand it repeats: no handler and no filter reads it.            *)
(* price_by_day is counted in hundredths.                                  *)
(***************************************************************************)
CarBrands == {"TESLA", "MERCEDES"}
MotorbikeBrands == {"HONDA", "YAMAHA", "KAWASAKI", "DUCATI", "BMW", "HARLEY_DAVIDSON"}
Brand == CarBrands \cup MotorbikeBrands

TeslaModels == {"MODEL_S", "MODEL_3", "MODEL_X", "MODEL_Y", "CYBERTRUCK", "ROADSTER"}
MercedesModels ==
    {"A_CLASS", "C_CLASS", "E_CLASS", "S_CLASS", "G_CLASS", "GLC", "GLE", "AMG_GT"}
CarModel == TeslaModels \cup MercedesModels
MotorbikeModel == {"SPORTBIKE", "CRUISER"}
FuelType == {"PETROL", "DIESEL", "ELECTRIC"}

Gearbox == {"MANUAL", "AUTOMATIC"}

\* VehicleMetadata::Car(CarMetadata) and VehicleMetadata::Motorbike(MotorbikeMetadata).
CarMetadata(model, seats, fuel_type, gearbox, engine_cc) ==
    [type |-> "Car", model |-> model, seats |-> seats, fuel_type |-> fuel_type,
     gearbox |-> gearbox, engine_cc |-> engine_cc]

MotorbikeMetadata(model, engine_cc, has_sidecar) ==
    [type |-> "Motorbike", model |-> model, engine_cc |-> engine_cc,
     has_sidecar |-> has_sidecar]

\* The automatic five-seater of 2000 cc and the 600 cc motorbike without a
\* sidecar, of the given model.
Car(model, fuel_type) == CarMetadata(model, 5, fuel_type, "AUTOMATIC", 2000)
Motorbike(model) == MotorbikeMetadata(model, 600, FALSE)
VehicleMetadata ==
    {Car(m, f) : m \in CarModel, f \in FuelType} \cup {Motorbike(m) : m \in MotorbikeModel}

Vehicle(id, brand, metadata, description, price_by_day, year_of_production, added_at, added_by) ==
    [id |-> id, brand |-> brand, metadata |-> metadata, description |-> description,
     price_by_day |-> price_by_day, year_of_production |-> year_of_production,
     added_at |-> added_at, added_by |-> added_by]

\* The metadata is flattened into "type" and "metadata"; a filter reaches a
\* field of the nested document by its dotted path.
VehicleDocument(v) ==
    (IF IsSome(v.id) THEN ("_id" :> Unwrap(v.id)) ELSE EmptyDocument)
    @@ ("brand" :> v.brand)
    @@ ("type" :> v.metadata.type)
    @@ ("metadata.model" :> v.metadata.model)
    @@ ("metadata.engine_cc" :> v.metadata.engine_cc)
    @@ (IF v.metadata.type = "Car"
        THEN ("metadata.seats" :> v.metadata.seats)
             @@ ("metadata.fuel_type" :> v.metadata.fuel_type)
             @@ ("metadata.gearbox" :> v.metadata.gearbox)
        ELSE ("metadata.has_sidecar" :> v.metadata.has_sidecar))
    @@ ("description" :> v.description)
    @@ ("price_by_day" :> v.price_by_day)
    @@ ("year_of_production" :> v.year_of_production)
    @@ ("added_at" :> v.added_at)
    @@ ("added_by" :> v.added_by)

CreateVehicleRequest(brand, metadata, description, price_by_day, year_of_production) ==
    [brand |-> brand, metadata |-> metadata, description |-> description,
     price_by_day |-> price_by_day, year_of_production |-> year_of_production]

\* UpdateVehicleRequest: both fields are optional.
UpdateVehicleRequest(description, price_by_day) ==
    [description |-> description, price_by_day |-> price_by_day]

\* Vehicle::new.
VehicleNew(request, added_by, now) ==
    Vehicle(None, request.brand, request.metadata, request.description,
            request.price_by_day, request.year_of_production, now, added_by)

(***************************************************************************)
(* bson::Document as the query builder fills it: the entries in the order  *)
(* of their insertion; inserting a key the document has replaces the value *)
(* where the key stands.  Query is the filter the store evaluates: every   *)
(* entry of the document is a condition a matching record satisfies.       *)
(***************************************************************************)
DocumentNew == <<>>

Entry(key, value) == [key |-> key, value |-> value]

Keys(document) == {document[i].key : i \in 1..Len(document)}

contains_key(document, key) == key \in Keys(document)

DocumentGet(document, key) ==
    document[CHOOSE i \in 1..Len(document) : document[i].key = key].value

insert(document, key, value) ==
    IF contains_key(document, key)
    THEN [i \in 1..Len(document) |->
             IF document[i].key = key THEN Entry(key, value) ELSE document[i]]
    ELSE Append(document, Entry(key, value))

Query(document) == [k \in Keys(document) |-> DocumentGet(document, k)]

(***************************************************************************)
(* QueryBuilder (services/mongodb/query_builder.rs).  Each method returns  *)
(* the filter it was given with the clause it adds.  Display of an         *)
(* enumeration writes the name of the variant, which is the string the     *)
(* model has for it.                                                       *)
(***************************************************************************)
\* Mutant of add_filter: a list of several values keeps its first.
add_filter_FirstOnly(filter, field, values) ==
    IF ~IsSome(values) \/ Unwrap(values) = <<>> THEN filter
    ELSE insert(filter, field, Eq(Unwrap(values)[1]))

add_filter(filter, field, values) ==
    IF ~IsSome(values) THEN filter
    ELSE LET vals == Unwrap(values)
         IN  IF vals = <<>> THEN filter
             ELSE IF Len(vals) = 1 THEN insert(filter, field, Eq(vals[1]))
             ELSE insert(filter, field, In(vals))

add_string_filter(filter, field, values) ==
    IF ~IsSome(values) THEN filter
    ELSE LET vals == Unwrap(values)
         IN  IF vals = <<>> THEN filter
             ELSE IF Len(vals) = 1 THEN insert(filter, field, Eq(vals[1]))
             ELSE insert(filter, field, In(vals))

\* Mutant of add_range_filter: a range is written only when it has both bounds.
add_range_filter_BothOrNone(filter, field, min_val, max_val) ==
    IF ~IsSome(min_val) \/ ~IsSome(max_val) THEN filter
    ELSE insert(filter, field,
                Operators(<<Entry("$gte", Unwrap(min_val)), Entry("$lte", Unwrap(max_val))>>))

add_range_filter(filter, field, min_val, max_val) ==
    IF ~IsSome(min_val) /\ ~IsSome(max_val) THEN filter
    ELSE LET lower == IF IsSome(min_val)
                      THEN insert(DocumentNew, "$gte", Unwrap(min_val))
                      ELSE DocumentNew
             range_doc == IF IsSome(max_val)
                          THEN insert(lower, "$lte", Unwrap(max_val))
                          ELSE lower
         IN  insert(filter, field, Operators(range_doc))

add_boolean_filter(filter, field, value) ==
    IF IsSome(value) THEN insert(filter, field, Eq(Unwrap(value))) ELSE filter

(***************************************************************************)
(* VehicleFilters (models/vehicle.rs): the criteria of a vehicle list.  A  *)
(* multi-value criterion is None or Some(list), has_sidecar None or        *)
(* Some(boolean), a bound of a range None or Some(number).                 *)
(***************************************************************************)
VehicleFilters(brand, model, min_price, max_price, year_of_production, fuel_type, gearbox, seats, engine_cc, has_sidecar, added_at_from, added_at_to) ==
    [brand |-> brand, model |-> model, min_price |-> min_price, max_price |-> max_price,
     year_of_production |-> year_of_production, fuel_type |-> fuel_type,
     gearbox |-> gearbox, seats |-> seats, engine_cc |-> engine_cc,
     has_sidecar |-> has_sidecar, added_at_from |-> added_at_from,
     added_at_to |-> added_at_to]

\* VehicleFilters::default().
NoFilters ==
    VehicleFilters(None, None, None, None, None, None, None, None, None, None, None, None)

\* The statements of to_bson_filter, in the order it runs them.
Clauses ==
    <<"brand", "fuel_type", "gearbox", "year_of_production", "seats", "engine_cc",
      "model", "has_sidecar", "price_by_day", "added_at">>

\* Mutant of add_clause: the clause of the models is written under the field
\* of the brand.
add_clause_SharedField(filter, filters, clause) ==
    CASE clause = "brand" -> add_string_filter(filter, "brand", filters.brand)
      [] clause = "fuel_type" ->
             add_string_filter(filter, "metadata.fuel_type", filters.fuel_type)
      [] clause = "gearbox" -> add_string_filter(filter, "metadata.gearbox", filters.gearbox)
      [] clause = "year_of_production" ->
             add_filter(filter, "year_of_production", filters.year_of_production)
      [] clause = "seats" ->
             IF IsSome(filters.seats)
             THEN LET seats_i32 == Some(Unwrap(filters.seats))
                  IN  add_filter(filter, "metadata.seats", seats_i32)
             ELSE filter
      [] clause = "engine_cc" -> add_filter(filter, "metadata.engine_cc", filters.engine_cc)
      [] clause = "model" -> add_filter(filter, "brand", filters.model)
      [] clause = "has_sidecar" ->
             add_boolean_filter(filter, "metadata.has_sidecar", filters.has_sidecar)
      [] clause = "price_by_day" ->
             add_range_filter(filter, "price_by_day", filters.min_price, filters.max_price)
      [] clause = "added_at" ->
             add_range_filter(filter, "added_at", filters.added_at_from, filters.added_at_to)

\* One statement of to_bson_filter.
add_clause(filter, filters, clause) ==
    CASE clause = "brand" -> add_string_filter(filter, "brand", filters.brand)
      [] clause = "fuel_type" ->
             add_string_filter(filter, "metadata.fuel_type", filters.fuel_type)
      [] clause = "gearbox" -> add_string_filter(filter, "metadata.gearbox", filters.gearbox)
      [] clause = "year_of_production" ->
             add_filter(filter, "year_of_production", filters.year_of_production)
      [] clause = "seats" ->
             IF IsSome(filters.seats)
             THEN LET seats_i32 == Some(Unwrap(filters.seats))
                  IN  add_filter(filter, "metadata.seats", seats_i32)
             ELSE filter
      [] clause = "engine_cc" -> add_filter(filter, "metadata.engine_cc", filters.engine_cc)
      [] clause = "model" -> add_filter(filter, "metadata.model", filters.model)
      [] clause = "has_sidecar" ->
             add_boolean_filter(filter, "metadata.has_sidecar", filters.has_sidecar)
      [] clause = "price_by_day" ->
             add_range_filter(filter, "price_by_day", filters.min_price, filters.max_price)
      [] clause = "added_at" ->
             add_range_filter(filter, "added_at", filters.added_at_from, filters.added_at_to)

\* The statements `order` names, run on `filter` from first to last.
RECURSIVE add_clauses(_, _, _)
add_clauses(filter, filters, order) ==
    IF order = <<>> THEN filter
    ELSE add_clauses(add_clause(filter, filters, Head(order)), filters, Tail(order))

to_bson_filter(filters) == add_clauses(DocumentNew, filters, Clauses)

(***************************************************************************)
(* util/serde_helpers.rs.  The text of a query parameter is the sequence   *)
(* of its characters, each a string of one character.                      *)
(***************************************************************************)
Whitespace == {" "}

\* str::split(sep): the pieces between the separators, the empty ones too.
RECURSIVE split(_, _)
split(s, sep) ==
    IF \A i \in 1..Len(s) : s[i] /= sep THEN <<s>>
    ELSE LET i == CHOOSE j \in 1..Len(s) :
                      s[j] = sep /\ \A k \in 1..(j - 1) : s[k] /= sep
         IN  <<SubSeq(s, 1, i - 1)>> \o split(SubSeq(s, i + 1, Len(s)), sep)

\* str::trim.
RECURSIVE trim(_)
trim(s) ==
    IF s = <<>> THEN s
    ELSE IF s[1] \in Whitespace THEN trim(Tail(s))
    ELSE IF s[Len(s)] \in Whitespace THEN trim(SubSeq(s, 1, Len(s) - 1))
    ELSE s

\* Mutant of parse_sort_fields: a prefix gives the direction and stays in the
\* name.
parse_sort_fields_KeepsPrefix(sort_str) ==
    LET fields  == split(sort_str, ",")
        trimmed == [i \in 1..Len(fields) |-> trim(fields[i])]
        kept    == SelectSeq(trimmed, LAMBDA field : field /= <<>>)
    IN  [i \in 1..Len(kept) |-> IF kept[i][1] = "-" THEN <<kept[i], -1>> ELSE <<kept[i], 1>>]

parse_sort_fields(sort_str) ==
    LET fields  == split(sort_str, ",")
        trimmed == [i \in 1..Len(fields) |-> trim(fields[i])]
        kept    == SelectSeq(trimmed, LAMBDA field : field /= <<>>)
    IN  [i \in 1..Len(kept) |->
            IF kept[i][1] = "-" THEN <<Tail(kept[i]), -1>>
            ELSE IF kept[i][1] = "+" THEN <<Tail(kept[i]), 1>>
            ELSE <<kept[i], 1>>]

\* u8::from_str: decimal digits, after one '+' if there is one, that stay
\* within the width.
U8Max == 255

Digits10 == <<"0", "1", "2", "3", "4", "5", "6", "7", "8", "9">>

DigitValue(c) == (CHOOSE i \in 1..10 : Digits10[i] = c) - 1

RECURSIVE Decimal(_)
Decimal(digits) ==
    IF digits = <<>> THEN 0
    ELSE 10 * Decimal(SubSeq(digits, 1, Len(digits) - 1)) + DigitValue(digits[Len(digits)])

parse_u8(item) ==
    LET digits == IF item /= <<>> /\ item[1] = "+" THEN Tail(item) ELSE item
    IN  IF digits = <<>> \/ \E i \in 1..Len(digits) : \A d \in 1..10 : Digits10[d] /= digits[i]
        THEN Err("invalid digit found in string")
        ELSE IF Decimal(digits) > U8Max THEN Err("number too large to fit in target type")
        ELSE Ok(Decimal(digits))

\* deserialize_comma_separated, for a list of u8 (the seats of VehicleFilters).
deserialize_comma_separated_SkipsBadItems(s) ==
    IF ~IsSome(s) \/ trim(Unwrap(s)) = <<>> THEN Ok(None)
    ELSE LET fields  == split(Unwrap(s), ",")
             trimmed == [i \in 1..Len(fields) |-> trim(fields[i])]
             kept    == SelectSeq(trimmed, LAMBDA item : item /= <<>> /\ IsOk(parse_u8(item)))
         IN  Ok(Some([i \in 1..Len(kept) |-> parse_u8(kept[i]).value]))

deserialize_comma_separated(s) ==
    IF ~IsSome(s) \/ trim(Unwrap(s)) = <<>> THEN Ok(None)
    ELSE LET fields  == split(Unwrap(s), ",")
             trimmed == [i \in 1..Len(fields) |-> trim(fields[i])]
             kept    == SelectSeq(trimmed, LAMBDA item : item /= <<>>)
             items   == [i \in 1..Len(kept) |-> parse_u8(kept[i])]
         IN  IF \E i \in 1..Len(items) : ~IsOk(items[i])
             THEN Err("Failed to parse item")
             ELSE Ok(Some([i \in 1..Len(items) |-> items[i].value]))

\* String: the characters of a text as one string, the key of a document.
RECURSIVE String(_)
String(chars) == IF chars = <<>> THEN "" ELSE chars[1] \o String(Tail(chars))

(***************************************************************************)
(* VehiclePagination and VehicleQueryBuilder (models/vehicle.rs).  page    *)
(* and limit are i64: the model gives the type IntBits bits, and the       *)
(* arithmetic on it either wraps or, in a build with overflow checks,      *)
(* panics.                                                                 *)
(***************************************************************************)
IntMin == 0 - 2 ^ (IntBits - 1)
IntMax == 2 ^ (IntBits - 1) - 1
Overflows(n) == n < IntMin \/ n > IntMax
Wrap(n) == ((n - IntMin) % (2 ^ IntBits)) + IntMin

\* The limit the skip is computed with when the request names none.
DefaultLimit == 10

VehiclePagination(page, limit, sort) == [page |-> page, limit |-> limit, sort |-> sort]

FindOptions(limit, skip, sort) == [limit |-> limit, skip |-> skip, sort |-> sort]

\* The pagination of a request that names no page, limit or sort.
NoPagination == VehiclePagination(None, None, None)

\* FindOptions::default().
FindOptionsDefault == FindOptions(None, None, None)

\* The handler panicked: the caller gets no response of the application.
Panic == Err("Panic")

\* The document of the sort: the fields in the order parsed.
RECURSIVE SortDoc(_, _)
SortDoc(sort_doc, sort_fields) ==
    IF sort_fields = <<>> THEN sort_doc
    ELSE SortDoc(insert(sort_doc, String(Head(sort_fields)[1]), Head(sort_fields)[2]),
                 Tail(sort_fields))

\* to_find_options returns Ok(options), or Panic where the product leaves
\* the range of i64 and the build checks for overflow.
to_find_options(pagination, overflow_checks) ==
    LET limit == IF IsSome(pagination.limit) THEN Unwrap(pagination.limit) ELSE DefaultLimit
        page  == Unwrap(pagination.page)
        pages == Wrap(page - 1)
        skip  == Wrap(pages * limit)
        overflow == IsSome(pagination.page) /\ (Overflows(page - 1) \/ Overflows(pages * limit))
        sort_fields == IF IsSome(pagination.sort)
                       THEN parse_sort_fields(Unwrap(pagination.sort)) ELSE <<>>
    IN  IF overflow /\ overflow_checks THEN Panic
        ELSE Ok(FindOptions(pagination.limit,
                            IF IsSome(pagination.page) /\ skip > 0 THEN Some(skip) ELSE None,
                            IF sort_fields /= <<>>
                            THEN Some(SortDoc(DocumentNew, sort_fields)) ELSE None))

\* build_query: Ok of the filter and the options, or Panic.
build_query(filters, pagination, overflow_checks) ==
    LET filter  == IF IsSome(filters) THEN to_bson_filter(Unwrap(filters)) ELSE DocumentNew
        options == IF IsSome(pagination)
                   THEN to_find_options(Unwrap(pagination), overflow_checks)
                   ELSE Ok(FindOptionsDefault)
    IN  IF IsOk(options) THEN Ok([filter |-> filter, options |-> options.value]) ELSE options

(***************************************************************************)
(* The storage layer (services/mongodb/mod.rs).  Each operation takes the  *)
(* collection, the type T of its members (its collection name), `fails`:   *)
(* whether the driver call ends in an error, which `?` / AppError::from    *)
(* turn into InternalServerError.  An operation returns its result and the *)
(* collection as it leaves it.                                             *)
(***************************************************************************)
StorageError == Err("InternalServerError")

Document(T, obj) ==
    IF T = "bookings" THEN BookingDocument(obj) ELSE VehicleDocument(obj)

MatchingIndexes(coll, T, filter) ==
    {i \in 1..Len(coll) : Matches(Document(T, coll[i]), filter)}

FirstIndex(S) == CHOOSE i \in S : \A j \in S : i <= j

get_one(coll, T, filter, fails) ==
    IF fails THEN StorageError
    ELSE LET found == MatchingIndexes(coll, T, filter)
         IN  IF found = {} THEN Ok(None) ELSE Ok(Some(coll[FirstIndex(found)]))

\* The order of a sort document on two documents: a field a document lacks
\* is null, which stands before every value; the fields compared are numbers.
RECURSIVE Before(_, _, _)
Before(a, b, sort_doc) ==
    IF sort_doc = <<>> THEN FALSE
    ELSE LET key == sort_doc[1].key
             has_a == key \in DOMAIN a
             has_b == key \in DOMAIN b
             less == IF has_a /\ has_b THEN a[key] < b[key] ELSE ~has_a /\ has_b
             more == IF has_a /\ has_b THEN b[key] < a[key] ELSE has_a /\ ~has_b
         IN  IF less THEN sort_doc[1].value = 1
             ELSE IF more THEN sort_doc[1].value = -1
             ELSE Before(a, b, Tail(sort_doc))

\* `obj` put into the sorted `sorted`, behind the members it does not precede.
RECURSIVE InsertSorted(_, _, _, _)
InsertSorted(obj, sorted, T, sort_doc) ==
    IF sorted = <<>> THEN <<obj>>
    ELSE IF Before(Document(T, obj), Document(T, sorted[1]), sort_doc)
    THEN <<obj>> \o sorted
    ELSE <<sorted[1]>> \o InsertSorted(obj, Tail(sorted), T, sort_doc)

RECURSIVE Sorted(_, _, _)
Sorted(coll, T, sort_doc) ==
    IF coll = <<>> THEN coll
    ELSE InsertSorted(coll[Len(coll)], Sorted(SubSeq(coll, 1, Len(coll) - 1), T, sort_doc),
                      T, sort_doc)

\* The cursor of a find under FindOptions: the matching documents sorted,
\* without the first `skip` and cut to `limit` (0: no limit; a negative
\* limit counts as its magnitude).
WithOptions(found, T, options) ==
    LET sorted  == IF IsSome(options.sort)
                   THEN Sorted(found, T, Unwrap(options.sort)) ELSE found
        skip    == IF IsSome(options.skip) THEN Unwrap(options.skip) ELSE 0
        skipped == SubSeq(sorted, skip + 1, Len(sorted))
        limit   == IF ~IsSome(options.limit) THEN 0
                   ELSE IF Unwrap(options.limit) < 0 THEN 0 - Unwrap(options.limit)
                   ELSE Unwrap(options.limit)
    IN  IF limit = 0 \/ limit >= Len(skipped) THEN skipped ELSE SubSeq(skipped, 1, limit)

collect_many(coll, T, filter, options, fails) ==
    IF fails THEN StorageError
    ELSE LET found == SelectSeq(coll, LAMBDA d : Matches(Document(T, d), filter))
         IN  Ok(IF IsSome(options) THEN WithOptions(found, T, Unwrap(options)) ELSE found)

\* Mutant of insert_one: the store refuses a booking that overlaps a Pending
\* or Confirmed booking of the same vehicle.
insert_one_Exclusive(coll, obj, fails) ==
    IF fails \/ \E i \in 1..Len(coll) :
                   /\ coll[i].vehicle_id = obj.vehicle_id
                   /\ coll[i].status.tag \in {"PENDING", "CONFIRMED"}
                   /\ DateLeq(coll[i].from_date, obj.to_date)
                   /\ DateLeq(obj.from_date, coll[i].to_date)
    THEN [result |-> StorageError, coll |-> coll]
    ELSE LET id == Len(coll) + 1
         IN  [result |-> Ok(id), coll |-> Append(coll, [obj EXCEPT !.id = Some(id)])]

\* The document is serialized without "_id" (skip_serializing_if), so the
\* store gives it a fresh one, which is returned.
insert_one(coll, obj, fails) ==
    IF fails THEN [result |-> StorageError, coll |-> coll]
    ELSE LET id == Len(coll) + 1
         IN  [result |-> Ok(id), coll |-> Append(coll, [obj EXCEPT !.id = Some(id)])]

\* Called with no options: the driver's default ReturnDocument::Before, so
\* the document returned is the one that was replaced.
find_one_and_replace(coll, T, filter, obj, fails) ==
    IF fails THEN [result |-> StorageError, coll |-> coll]
    ELSE LET found == MatchingIndexes(coll, T, filter)
         IN  IF found = {}
             THEN [result |-> Ok(None), coll |-> coll]
             ELSE [result |-> Ok(Some(coll[FirstIndex(found)])),
                   coll   |-> [coll EXCEPT ![FirstIndex(found)] = obj]]

(***************************************************************************)
(* has_overlapping_bookings                                                *)
(* (services/mongodb/booking/has_overlapping_bookings.rs).                 *)
(***************************************************************************)
\* Mutant of OverlapFilter: the status of the stored booking is not looked at.
OverlapFilter_AnyStatus(vehicle_id, from_date, to_date) ==
    ("vehicle_id" :> Eq(vehicle_id))
    @@ ("$and" :> << ("from_date" :> Lte(to_bson(to_date))),
                     ("to_date" :> Gte(to_bson(from_date))) >>)

OverlapFilter(vehicle_id, from_date, to_date) ==
    ("vehicle_id" :> Eq(vehicle_id))
    @@ ("$and" :> << ("from_date" :> Lte(to_bson(to_date))),
                     ("to_date" :> Gte(to_bson(from_date))),
                     ("$or" :> << ("status" :> Eq("PENDING")),
                                  ("status" :> Eq("CONFIRMED")) >>) >>)

has_overlapping_bookings(coll, vehicle_id, from_date, to_date, fails) ==
    LET found == collect_many(coll, "bookings",
                              OverlapFilter(vehicle_id, from_date, to_date), None, fails)
    IN  IF IsOk(found) THEN Ok(found.value /= <<>>) ELSE found

(***************************************************************************)
(* validator/booking.rs                                                    *)
(***************************************************************************)
\* Result<(), String>: the error is its message.  `queried` tells whether
\* the overlap query was issued.
\* Mutant of validate_booking_creation: a failed overlap query is taken as no
\* overlap.
validate_booking_creation_Optimistic(coll, identity, request, fails) ==
    IF ~DateLt(request.from_date, request.to_date)
    THEN [result |-> Err("from_date must be before to_date"), queried |-> FALSE]
    ELSE LET overlap == has_overlapping_bookings(coll, request.vehicle_id,
                                                 request.from_date, request.to_date, fails)
         IN  [queried |-> TRUE,
              result  |-> IF IsOk(overlap) /\ overlap.value
                          THEN Err("Vehicle is already booked for overlapping dates.")
                          ELSE Ok(None)]

\* Mutant of validate_booking_creation: the overlap query is issued before the
\* dates are compared.
validate_booking_creation_QueryFirst(coll, identity, request, fails) ==
    LET overlap == has_overlapping_bookings(coll, request.vehicle_id,
                                            request.from_date, request.to_date, fails)
    IN  [queried |-> TRUE,
         result  |-> IF ~DateLt(request.from_date, request.to_date)
                     THEN Err("from_date must be before to_date")
                     ELSE IF IsOk(overlap)
                          THEN IF overlap.value
                               THEN Err("Vehicle is already booked for overlapping dates.")
                               ELSE Ok(None)
                          ELSE Err("Failed to check for booking conflicts.")]

validate_booking_creation_EqualDatesPass(coll, identity, request, fails) ==
    IF DateLt(request.to_date, request.from_date)
    THEN [result |-> Err("from_date must be before to_date"), queried |-> FALSE]
    ELSE LET overlap == has_overlapping_bookings(coll, request.vehicle_id,
                                                 request.from_date, request.to_date, fails)
         IN  [queried |-> TRUE,
              result  |-> IF IsOk(overlap)
                          THEN IF overlap.value
                               THEN Err("Vehicle is already booked for overlapping dates.")
                               ELSE Ok(None)
                          ELSE Err("Failed to check for booking conflicts.")]

validate_booking_creation(coll, identity, request, fails) ==
    IF ~DateLt(request.from_date, request.to_date)
    THEN [result |-> Err("from_date must be before to_date"), queried |-> FALSE]
    ELSE LET overlap == has_overlapping_bookings(coll, request.vehicle_id,
                                                 request.from_date, request.to_date, fails)
         IN  [queried |-> TRUE,
              result  |-> IF IsOk(overlap)
                          THEN IF overlap.value
                               THEN Err("Vehicle is already booked for overlapping dates.")
                               ELSE Ok(None)
                          ELSE Err("Failed to check for booking conflicts.")]

\* Mutant of check_booking_update_permission: only Admin and the owner pass.
check_booking_update_permission_AdminOnly(identity, booking) ==
    CASE identity.role = "Admin" -> Ok(None)
      [] identity.role \in {"CarManager", "MotorbikeManager"} -> Err("Forbidden")
      [] identity.role = "Customer" ->
            IF booking.customer_id = identity.user_id THEN Ok(None) ELSE Err("Forbidden")

check_booking_update_permission(identity, booking) ==
    CASE identity.role = "Admin" -> Ok(None)
      [] identity.role \in {"CarManager", "MotorbikeManager"} -> Ok(None)
      [] identity.role = "Customer" ->
            IF booking.customer_id = identity.user_id THEN Ok(None) ELSE Err("Forbidden")

\* Mutant of check_booking_view_permission: every caller may view.
check_booking_view_permission_Open(identity, booking) == Ok(None)

check_booking_view_permission(identity, booking) ==
    CASE identity.role \in {"Admin", "CarManager", "MotorbikeManager"} -> Ok(None)
      [] identity.role = "Customer" ->
            IF booking.customer_id = identity.user_id THEN Ok(None) ELSE Err("Forbidden")

\* Mutant of validate_customer_status_change: the current status is not looked at.
validate_customer_status_change_AnyCurrent(current_status, new_status) ==
    CASE new_status.tag = "CANCELLED" -> Ok(None)
      [] OTHER -> Err("Forbidden")

validate_customer_status_change(current_status, new_status) ==
    CASE new_status.tag = "CANCELLED" ->
            IF current_status.tag \in {"PENDING", "CONFIRMED"} THEN Ok(None) ELSE Err("Forbidden")
      [] OTHER -> Err("Forbidden")

\* Mutant of validate_non_customer_status_change: a Rejected or Cancelled
\* booking is treated like a Pending one.
validate_non_customer_status_change_NoTerminal(current_status, new_status) ==
    CASE new_status.tag = "CANCELLED" -> Err("Forbidden")
      [] new_status.tag = "PENDING" -> Err("Forbidden")
      [] new_status.tag \in {"CONFIRMED", "REJECTED"} ->
            CASE current_status.tag = "PENDING" -> Ok(None)
              [] current_status.tag = "CONFIRMED" ->
                    IF new_status.tag = "REJECTED" THEN Ok(None) ELSE Err("BadRequest")
              [] current_status.tag \in {"REJECTED", "CANCELLED"} -> Ok(None)

\* Mutant of validate_non_customer_status_change: the arm refusing Pending is
\* missing, so Pending is checked like Confirmed.
validate_non_customer_status_change_PendingArmMissing(current_status, new_status) ==
    CASE new_status.tag = "CANCELLED" -> Err("Forbidden")
      [] new_status.tag \in {"PENDING", "CONFIRMED", "REJECTED"} ->
            CASE current_status.tag = "PENDING" -> Ok(None)
              [] current_status.tag = "CONFIRMED" ->
                    IF new_status.tag = "REJECTED" THEN Ok(None) ELSE Err("BadRequest")
              [] current_status.tag \in {"REJECTED", "CANCELLED"} -> Err("BadRequest")

validate_non_customer_status_change_CurrentFirst(current_status, new_status) ==
    CASE current_status.tag \in {"REJECTED", "CANCELLED"} -> Err("BadRequest")
      [] new_status.tag = "CANCELLED" -> Err("Forbidden")
      [] new_status.tag = "PENDING" -> Err("Forbidden")
      [] current_status.tag = "PENDING" -> Ok(None)
      [] OTHER -> IF new_status.tag = "REJECTED" THEN Ok(None) ELSE Err("BadRequest")

validate_non_customer_status_change(current_status, new_status) ==
    CASE new_status.tag = "CANCELLED" -> Err("Forbidden")
      [] new_status.tag = "PENDING" -> Err("Forbidden")
      [] new_status.tag \in {"CONFIRMED", "REJECTED"} ->
            CASE current_status.tag = "PENDING" -> Ok(None)
              [] current_status.tag = "CONFIRMED" ->
                    IF new_status.tag = "REJECTED" THEN Ok(None) ELSE Err("BadRequest")
              [] current_status.tag \in {"REJECTED", "CANCELLED"} -> Err("BadRequest")

\* Mutant of validate_update_booking: a Rejected or Cancelled booking accepts
\* no update at all, not even one with no status.
validate_update_booking_TerminalLocked(identity, booking, request) ==
    LET permission == check_booking_update_permission(identity, booking)
    IN  IF ~IsOk(permission) THEN permission
        ELSE IF booking.status.tag \in {"REJECTED", "CANCELLED"} THEN Err("BadRequest")
        ELSE IF IsSome(request.status)
        THEN CASE identity.role = "Customer" ->
                    validate_customer_status_change(booking.status, Unwrap(request.status))
               [] identity.role \in {"Admin", "CarManager", "MotorbikeManager"} ->
                    validate_non_customer_status_change(booking.status, Unwrap(request.status))
        ELSE Ok(None)

validate_update_booking(identity, booking, request) ==
    LET permission == check_booking_update_permission(identity, booking)
    IN  IF ~IsOk(permission) THEN permission
        ELSE IF IsSome(request.status)
        THEN CASE identity.role = "Customer" ->
                    validate_customer_status_change(booking.status, Unwrap(request.status))
               [] identity.role \in {"Admin", "CarManager", "MotorbikeManager"} ->
                    validate_non_customer_status_change(booking.status, Unwrap(request.status))
        ELSE Ok(None)

(***************************************************************************)
(* validator/vehicle.rs.  validate_metadata and validate_brand_model       *)
(* return Result<(), String>: the error is its message.                    *)
(***************************************************************************)
\* Mutant of validate_metadata: the fuel type is not looked at.
validate_metadata_AnyFuel(identity, metadata) == Ok(None)

validate_metadata(identity, metadata) ==
    IF /\ metadata.type = "Car"
       /\ metadata.model \in {"MODEL_S", "MODEL_3", "MODEL_X", "MODEL_Y",
                               "CYBERTRUCK", "ROADSTER"}
       /\ metadata.fuel_type /= "ELECTRIC"
    THEN Err("Tesla vehicles must have Electric fuel type.")
    ELSE Ok(None)

\* Mutant of validate_brand_model: the model of a Mercedes is not looked at.
validate_brand_model_AnyMercedes(brand, metadata) ==
    CASE brand = "TESLA" /\ metadata.type = "Car" ->
            IF metadata.model \notin {"MODEL_S", "MODEL_3", "MODEL_X", "MODEL_Y",
                                      "CYBERTRUCK", "ROADSTER"}
            THEN Err("Invalid model for Tesla brand.")
            ELSE Ok(None)
      [] brand = "MERCEDES" /\ metadata.type = "Car" -> Ok(None)
      [] brand \in {"HONDA", "YAMAHA", "KAWASAKI", "DUCATI", "BMW", "HARLEY_DAVIDSON"}
            /\ metadata.type = "Motorbike" -> Ok(None)
      [] brand \in {"TESLA", "MERCEDES"} /\ metadata.type = "Motorbike" ->
            Err(brand \o " is a car brand and cannot be used with motorbike metadata.")
      [] brand \in {"HONDA", "YAMAHA", "KAWASAKI", "DUCATI", "BMW", "HARLEY_DAVIDSON"}
            /\ metadata.type = "Car" ->
            Err(brand \o " is a motorbike brand and cannot be used with car metadata.")

validate_brand_model(brand, metadata) ==
    CASE brand = "TESLA" /\ metadata.type = "Car" ->
            IF metadata.model \notin {"MODEL_S", "MODEL_3", "MODEL_X", "MODEL_Y",
                                      "CYBERTRUCK", "ROADSTER"}
            THEN Err("Invalid model for Tesla brand.")
            ELSE Ok(None)
      [] brand = "MERCEDES" /\ metadata.type = "Car" ->
            IF metadata.model \notin {"A_CLASS", "C_CLASS", "E_CLASS", "S_CLASS",
                                      "G_CLASS", "GLC", "GLE", "AMG_GT"}
            THEN Err("Invalid model for Mercedes brand.")
            ELSE Ok(None)
      [] brand \in {"HONDA", "YAMAHA", "KAWASAKI", "DUCATI", "BMW", "HARLEY_DAVIDSON"}
            /\ metadata.type = "Motorbike" -> Ok(None)
      [] brand \in {"TESLA", "MERCEDES"} /\ metadata.type = "Motorbike" ->
            Err(brand \o " is a car brand and cannot be used with motorbike metadata.")
      [] brand \in {"HONDA", "YAMAHA", "KAWASAKI", "DUCATI", "BMW", "HARLEY_DAVIDSON"}
            /\ metadata.type = "Car" ->
            Err(brand \o " is a motorbike brand and cannot be used with car metadata.")

\* Mutant of check_vehicle_type_permission: a manager may manage both categories.
check_vehicle_type_permission_AnyManager(identity, vehicle) ==
    IF identity.role \in {"Admin", "CarManager", "MotorbikeManager"}
    THEN Ok(None) ELSE Err("Forbidden")

check_vehicle_type_permission(identity, vehicle) ==
    CASE identity.role = "Admin" -> Ok(None)
      [] identity.role = "CarManager" ->
            IF vehicle.metadata.type = "Car" THEN Ok(None) ELSE Err("Forbidden")
      [] identity.role = "MotorbikeManager" ->
            IF vehicle.metadata.type = "Motorbike" THEN Ok(None) ELSE Err("Forbidden")
      [] OTHER -> Err("Forbidden")

\* The derived Validate of the two requests: a description, when given, has
\* 1 to 249 characters; a price, when given, is at least 0.01; the year of a
\* create is within 1900..2030.
DescriptionValid(description) ==
    IsSome(description) => (Len(Unwrap(description)) >= 1 /\ Len(Unwrap(description)) <= 249)

ValidateCreateVehicleRequest(request) ==
    /\ DescriptionValid(request.description)
    /\ request.price_by_day >= 1
    /\ request.year_of_production >= 1900 /\ request.year_of_production <= 2030

ValidateUpdateVehicleRequest_AnyPrice(request) ==
    DescriptionValid(request.description)

ValidateUpdateVehicleRequest(request) ==
    /\ DescriptionValid(request.description)
    /\ IsSome(request.price_by_day) => Unwrap(request.price_by_day) >= 1

validate_update_vehicle(identity, vehicle, request) ==
    IF ~ValidateUpdateVehicleRequest(request) THEN Err("BadRequest")
    ELSE check_vehicle_type_permission(identity, vehicle)

(***************************************************************************)
(* controllers/booking.rs.  A controller returns its result, the bookings  *)
(* collection as it leaves it and the storage operations it issued, in     *)
(* order.  `fail` is the position of the storage call that ends in an      *)
(* error (0: none does).                                                   *)
(***************************************************************************)
Outcome(result, coll, ops) == [result |-> result, bookings |-> coll, ops |-> ops]

IdFilter(id) == ("_id" :> Eq(id))

create(bs, vs, identity, request, now, fail) ==
    LET valid == validate_booking_creation(bs, identity, request, fail = 1)
        ops1 == IF valid.queried THEN <<"collect_many">> ELSE <<>>
    IN  IF ~IsOk(valid.result) THEN Outcome(Err("BadRequest"), bs, ops1)
        ELSE
        LET vehicle == get_one(vs, "vehicles", IdFilter(request.vehicle_id), fail = 2)
            ops2 == Append(ops1, "get_one")
        IN  IF ~IsOk(vehicle) THEN Outcome(vehicle, bs, ops2)
            ELSE IF ~IsSome(vehicle.value) THEN Outcome(Err("NotFound"), bs, ops2)
            ELSE
            LET booking == BookingNew(request, identity.user_id, now)
                inserted == insert_one(bs, booking, fail = 3)
                ops3 == Append(ops2, "insert_one")
            IN  IF ~IsOk(inserted.result) THEN Outcome(inserted.result, inserted.coll, ops3)
                ELSE Outcome(Ok([booking EXCEPT !.id = Some(inserted.result.value)]),
                             inserted.coll, ops3)

\* Mutant of list: the customer filter is not applied.
list_Unscoped(bs, identity, fail) ==
    Outcome(collect_many(bs, "bookings", EmptyDocument, None, fail = 1), bs,
            <<"collect_many">>)

list(bs, identity, fail) ==
    LET filter == IF identity.role = "Customer"
                  THEN ("customer_id" :> Eq(identity.user_id))
                  ELSE EmptyDocument
    IN  Outcome(collect_many(bs, "bookings", filter, None, fail = 1), bs, <<"collect_many">>)

\* Mutant of update: the document written carries the caller as customer_id.
update_TakesOver(bs, identity, booking_id, request, fail) ==
    LET found == get_one(bs, "bookings", IdFilter(booking_id), fail = 1)
    IN  IF ~IsOk(found) THEN Outcome(found, bs, <<"get_one">>)
        ELSE IF ~IsSome(found.value) THEN Outcome(Err("NotFound"), bs, <<"get_one">>)
        ELSE
        LET booking == Unwrap(found.value)
            valid == validate_update_booking(identity, booking, request)
        IN  IF ~IsOk(valid) THEN Outcome(valid, bs, <<"get_one">>)
            ELSE
            LET updated == [booking EXCEPT
                              !.customer_id = identity.user_id,
                              !.status = IF IsSome(request.status)
                                         THEN Unwrap(request.status) ELSE @]
                replaced == find_one_and_replace(bs, "bookings", IdFilter(booking_id),
                                                 updated, fail = 2)
                ops == <<"get_one", "find_one_and_replace">>
            IN  IF ~IsOk(replaced.result) THEN Outcome(replaced.result, replaced.coll, ops)
                ELSE IF ~IsSome(replaced.result.value)
                THEN Outcome(Err("InternalServerError"), replaced.coll, ops)
                ELSE Outcome(Ok(Unwrap(replaced.result.value)), replaced.coll, ops)

update(bs, identity, booking_id, request, fail) ==
    LET found == get_one(bs, "bookings", IdFilter(booking_id), fail = 1)
    IN  IF ~IsOk(found) THEN Outcome(found, bs, <<"get_one">>)
        ELSE IF ~IsSome(found.value) THEN Outcome(Err("NotFound"), bs, <<"get_one">>)
        ELSE
        LET booking == Unwrap(found.value)
            valid == validate_update_booking(identity, booking, request)
        IN  IF ~IsOk(valid) THEN Outcome(valid, bs, <<"get_one">>)
            ELSE
            LET updated == IF IsSome(request.status)
                           THEN [booking EXCEPT !.status = Unwrap(request.status)]
                           ELSE booking
                replaced == find_one_and_replace(bs, "bookings", IdFilter(booking_id),
                                                 updated, fail = 2)
                ops == <<"get_one", "find_one_and_replace">>
            IN  IF ~IsOk(replaced.result) THEN Outcome(replaced.result, replaced.coll, ops)
                ELSE IF ~IsSome(replaced.result.value)
                THEN Outcome(Err("InternalServerError"), replaced.coll, ops)
                ELSE Outcome(Ok(Unwrap(replaced.result.value)), replaced.coll, ops)

get_AbsentIsError(bs, identity, booking_id, fail) ==
    LET found == get_one(bs, "bookings", IdFilter(booking_id), fail = 1)
    IN  IF IsOk(found) /\ ~IsSome(found.value)
        THEN Outcome(Err("NotFound"), bs, <<"get_one">>)
        ELSE IF IsOk(found)
                /\ ~IsOk(check_booking_view_permission(identity, Unwrap(found.value)))
        THEN Outcome(check_booking_view_permission(identity, Unwrap(found.value)), bs, <<"get_one">>)
        ELSE Outcome(found, bs, <<"get_one">>)

get(bs, identity, booking_id, fail) ==
    LET found == get_one(bs, "bookings", IdFilter(booking_id), fail = 1)
    IN  IF IsOk(found) /\ IsSome(found.value)
           /\ ~IsOk(check_booking_view_permission(identity, Unwrap(found.value)))
        THEN Outcome(check_booking_view_permission(identity, Unwrap(found.value)), bs, <<"get_one">>)
        ELSE Outcome(found, bs, <<"get_one">>)

(***************************************************************************)
(* routes/booking.rs: the role guard of each route, then the controller.   *)
(* A caller whose role the guard does not list is answered Forbidden and   *)
(* the controller does not run.                                            *)
(***************************************************************************)
protect(allowed, identity, bs, outcome) ==
    IF identity.role \in allowed THEN outcome ELSE Outcome(Err("Forbidden"), bs, <<>>)

\* Mutant of route_create: the route has no role guard.
route_create_Unguarded(bs, vs, identity, request, now, fail) ==
    create(bs, vs, identity, request, now, fail)

route_create(bs, vs, identity, request, now, fail) ==
    protect({"Customer"}, identity, bs, create(bs, vs, identity, request, now, fail))

route_list(bs, identity, fail) ==
    protect({"Admin", "CarManager", "MotorbikeManager", "Customer"}, identity, bs,
            list(bs, identity, fail))

route_update(bs, identity, booking_id, request, fail) ==
    protect({"Admin", "CarManager", "MotorbikeManager", "Customer"}, identity, bs,
            update(bs, identity, booking_id, request, fail))

\* Ok(None) from the controller becomes NotFound.
route_get(bs, identity, booking_id, fail) ==
    LET out == protect({"Admin", "CarManager", "MotorbikeManager", "Customer"}, identity, bs,
                       get(bs, identity, booking_id, fail))
    IN  IF IsOk(out.result) /\ ~IsSome(out.result.value)
        THEN [out EXCEPT !.result = Err("NotFound")]
        ELSE out

(***************************************************************************)
(* controllers/vehicle.rs.  A controller returns its result, the vehicles  *)
(* collection as it leaves it and the storage operations it issued.        *)
(***************************************************************************)
VehicleOutcome(result, coll, ops) == [result |-> result, vehicles |-> coll, ops |-> ops]

vehicle_create(vs, identity, request, now, fail) ==
    IF ~IsOk(validate_brand_model(request.brand, request.metadata))
    THEN VehicleOutcome(Err("BadRequest"), vs, <<>>)
    ELSE LET vehicle == VehicleNew(request, identity.user_id, now)
             inserted == insert_one(vs, vehicle, fail = 1)
         IN  IF ~IsOk(inserted.result)
             THEN VehicleOutcome(inserted.result, inserted.coll, <<"insert_one">>)
             ELSE VehicleOutcome(Ok([vehicle EXCEPT !.id = Some(inserted.result.value)]),
                                 inserted.coll, <<"insert_one">>)

vehicle_list(vs, filters, pagination, fail, overflow_checks) ==
    LET query == build_query(Some(filters), Some(pagination), overflow_checks)
    IN  IF ~IsOk(query) THEN VehicleOutcome(query, vs, <<>>)
        ELSE VehicleOutcome(collect_many(vs, "vehicles", Query(query.value.filter),
                                         Some(query.value.options), fail = 1),
                            vs, <<"collect_many">>)

\* Mutant of vehicle_update: the description of the request is stored as it
\* is, an absent one included.
vehicle_update_ClearsAbsent(vs, identity, vehicle_id, request, fail) ==
    LET found == get_one(vs, "vehicles", IdFilter(vehicle_id), fail = 1)
    IN  IF ~IsOk(found) THEN VehicleOutcome(found, vs, <<"get_one">>)
        ELSE IF ~IsSome(found.value) THEN VehicleOutcome(Err("NotFound"), vs, <<"get_one">>)
        ELSE
        LET vehicle == Unwrap(found.value)
            valid == validate_update_vehicle(identity, vehicle, request)
        IN  IF ~IsOk(valid) THEN VehicleOutcome(valid, vs, <<"get_one">>)
            ELSE
            LET described == [vehicle EXCEPT !.description = request.description]
                updated == IF IsSome(request.price_by_day)
                           THEN [described EXCEPT !.price_by_day = Unwrap(request.price_by_day)]
                           ELSE described
                replaced == find_one_and_replace(vs, "vehicles", IdFilter(vehicle_id),
                                                 updated, fail = 2)
                ops == <<"get_one", "find_one_and_replace">>
            IN  IF ~IsOk(replaced.result)
                THEN VehicleOutcome(replaced.result, replaced.coll, ops)
                ELSE IF ~IsSome(replaced.result.value)
                THEN VehicleOutcome(Err("InternalServerError"), replaced.coll, ops)
                ELSE VehicleOutcome(Ok(updated), replaced.coll, ops)

vehicle_update(vs, identity, vehicle_id, request, fail) ==
    LET found == get_one(vs, "vehicles", IdFilter(vehicle_id), fail = 1)
    IN  IF ~IsOk(found) THEN VehicleOutcome(found, vs, <<"get_one">>)
        ELSE IF ~IsSome(found.value) THEN VehicleOutcome(Err("NotFound"), vs, <<"get_one">>)
        ELSE
        LET vehicle == Unwrap(found.value)
            valid == validate_update_vehicle(identity, vehicle, request)
        IN  IF ~IsOk(valid) THEN VehicleOutcome(valid, vs, <<"get_one">>)
            ELSE
            LET described == IF IsSome(request.description)
                             THEN [vehicle EXCEPT !.description = request.description]
                             ELSE vehicle
                updated == IF IsSome(request.price_by_day)
                           THEN [described EXCEPT !.price_by_day = Unwrap(request.price_by_day)]
                           ELSE described
                replaced == find_one_and_replace(vs, "vehicles", IdFilter(vehicle_id),
                                                 updated, fail = 2)
                ops == <<"get_one", "find_one_and_replace">>
            IN  IF ~IsOk(replaced.result)
                THEN VehicleOutcome(replaced.result, replaced.coll, ops)
                ELSE IF ~IsSome(replaced.result.value)
                THEN VehicleOutcome(Err("InternalServerError"), replaced.coll, ops)
                ELSE VehicleOutcome(Ok(updated), replaced.coll, ops)

vehicle_get(vs, vehicle_id, fail) ==
    VehicleOutcome(get_one(vs, "vehicles", IdFilter(vehicle_id), fail = 1), vs, <<"get_one">>)

(***************************************************************************)
(* routes/vehicle.rs.  The body of a create goes through validator::Json   *)
(* (validator/json.rs), which runs the derived Validate and then           *)
(* validate_metadata while the arguments of the handler are extracted,     *)
(* before the role guard; its rejection is the extractor's own error, not  *)
(* an AppError.  The body of an update is read by the plain extractor.     *)
(***************************************************************************)
ExtractorError == Err("ExtractorError")

protect_vehicles(allowed, identity, vs, outcome) ==
    IF identity.role \in allowed THEN outcome ELSE VehicleOutcome(Err("Forbidden"), vs, <<>>)

\* Json::from_request for CreateVehicleRequest.
from_request(identity, request) ==
    IF ~ValidateCreateVehicleRequest(request) THEN ExtractorError
    ELSE IF ~IsOk(validate_metadata(identity, request.metadata)) THEN ExtractorError
    ELSE Ok(request)

route_vehicle_create(vs, identity, request, now, fail) ==
    IF ~IsOk(from_request(identity, request))
    THEN VehicleOutcome(from_request(identity, request), vs, <<>>)
    ELSE protect_vehicles({"Admin"}, identity, vs,
                          vehicle_create(vs, identity, request, now, fail))

route_vehicle_list(vs, filters, pagination, fail, overflow_checks) ==
    vehicle_list(vs, filters, pagination, fail, overflow_checks)

route_vehicle_update(vs, identity, vehicle_id, request, fail) ==
    protect_vehicles({"Admin", "CarManager", "MotorbikeManager"}, identity, vs,
                     vehicle_update(vs, identity, vehicle_id, request, fail))

\* Ok(None) from the controller becomes NotFound.
\* controllers::vehicle::list_bookings: the vehicle is looked up, the caller's
\* right to its category checked, and the bookings of the vehicle collected.
list_bookings_Unfiltered(bs, vs, identity, vehicle_id, fail) ==
    LET found == get_one(vs, "vehicles", IdFilter(vehicle_id), fail = 1)
    IN  IF ~IsOk(found) THEN Outcome(found, bs, <<"get_one">>)
        ELSE IF ~IsSome(found.value) THEN Outcome(Err("NotFound"), bs, <<"get_one">>)
        ELSE
        LET allowed == check_vehicle_type_permission(identity, Unwrap(found.value))
        IN  IF ~IsOk(allowed) THEN Outcome(allowed, bs, <<"get_one">>)
            ELSE Outcome(collect_many(bs, "bookings", EmptyDocument, None, fail = 2),
                         bs, <<"get_one", "collect_many">>)

list_bookings(bs, vs, identity, vehicle_id, fail) ==
    LET found == get_one(vs, "vehicles", IdFilter(vehicle_id), fail = 1)
    IN  IF ~IsOk(found) THEN Outcome(found, bs, <<"get_one">>)
        ELSE IF ~IsSome(found.value) THEN Outcome(Err("NotFound"), bs, <<"get_one">>)
        ELSE
        LET allowed == check_vehicle_type_permission(identity, Unwrap(found.value))
        IN  IF ~IsOk(allowed) THEN Outcome(allowed, bs, <<"get_one">>)
            ELSE Outcome(collect_many(bs, "bookings", ("vehicle_id" :> Eq(vehicle_id)),
                                      None, fail = 2),
                         bs, <<"get_one", "collect_many">>)

route_list_bookings(bs, vs, identity, vehicle_id, fail) ==
    protect({"Admin", "CarManager", "MotorbikeManager"}, identity, bs,
            list_bookings(bs, vs, identity, vehicle_id, fail))

route_vehicle_get(vs, vehicle_id, fail) ==
    LET out == vehicle_get(vs, vehicle_id, fail)
    IN  IF IsOk(out.result) /\ ~IsSome(out.result.value)
        THEN [out EXCEPT !.result = Err("NotFound")]
        ELSE out

(***************************************************************************)
(* MONGODB_CLIENT, a tokio::sync::OnceCell<Client>.  The cell holds the    *)
(* client once one is set, and a semaphore of one permit that a caller of  *)
(* get_or_try_init must hold while its initializer runs; setting the value *)
(* closes the semaphore.  `connects` counts the clients that have been     *)
(* built and pinged with success, and the n-th of them is named n.         *)
(***************************************************************************)
OnceCellNew == [value |-> None, permit |-> None, connects |-> 0]

initialized(cell) == IsSome(cell.value)

\* semaphore.acquire(): the permit is free.
acquire_Unguarded(cell) == TRUE

acquire(cell) == cell.permit = None

\* set_value: the value is stored and the semaphore closed.
set_value(cell, client) ==
    [cell EXCEPT !.value = Some(client), !.permit = None, !.connects = @ + 1]

\* The permit is dropped, and the cell is as it was before it was taken.
release(cell) == [cell EXCEPT !.permit = None]

(***************************************************************************)
(* The state machine.  The vehicles collection holds a car and a           *)
(* motorbike from the start; the bookings collection starts empty.         *)
(***************************************************************************)
SeedVehicles ==
    << Vehicle(Some(1), "TESLA", Car("MODEL_3", "ELECTRIC"), None, 5000, 2020, 0, "Admin"),
       Vehicle(Some(2), "HONDA", Motorbike("CRUISER"), None, 3000, 2020, 0, "Admin") >>

\* The clients whose requests run side by side, named by their API keys; a
\* client with no request in progress is idle.
Clients == {"Customer1", "Customer2"}

Idle == [pc |-> "idle"]

Init ==
    /\ bookings = <<>>
    /\ vehicles = SeedVehicles
    /\ response = None
    /\ inflight = [c \in Clients |-> Idle]
    /\ MONGODB_CLIENT = OnceCellNew

\* Utc::now() of a create: the model's clock has ticked once per stored booking.
Now == Len(bookings) + 1

\* Utc::now() of a vehicle create: one tick per stored vehicle.
VehicleNow == Len(vehicles)

\* The record of a handled request: what was asked, by whom, which storage
\* call was made to fail, the result, the storage operations issued and the
\* two collections as the handler found them.
Handled(op, identity, booking_id, vehicle_id, request, fail, result, ops) ==
    Some([op |-> op, identity |-> identity, booking_id |-> booking_id,
          vehicle_id |-> vehicle_id, request |-> request, fail |-> fail,
          result |-> result, ops |-> ops,
          before |-> bookings, vehicles_before |-> vehicles])

Respond(op, identity, booking_id, request, fail, out) ==
    /\ response = None
    /\ Len(out.bookings) <= MaxBookings
    /\ bookings' = out.bookings
    /\ response' = Handled(op, identity, booking_id, None, request, fail, out.result, out.ops)
    /\ UNCHANGED <<MONGODB_CLIENT, vehicles, inflight>>

RespondVehicle(op, identity, vehicle_id, request, fail, out) ==
    /\ response = None
    /\ Len(out.vehicles) <= MaxVehicles
    /\ vehicles' = out.vehicles
    /\ response' = Handled(op, identity, None, vehicle_id, request, fail, out.result, out.ops)
    /\ UNCHANGED <<MONGODB_CLIENT, bookings, inflight>>

BookingCreate(identity, request, fail) ==
    Respond("create", identity, None, Some(request), fail,
            route_create(bookings, vehicles, identity, request, Now, fail))

BookingList(identity, fail) ==
    Respond("list", identity, None, None, fail, route_list(bookings, identity, fail))

BookingUpdate(identity, booking_id, request, fail) ==
    Respond("update", identity, Some(booking_id), Some(request), fail,
            route_update(bookings, identity, booking_id, request, fail))

BookingGet(identity, booking_id, fail) ==
    Respond("get", identity, Some(booking_id), None, fail,
            route_get(bookings, identity, booking_id, fail))

VehicleCreate(identity, request, fail) ==
    RespondVehicle("vehicle_create", identity, None, Some(request), fail,
                   route_vehicle_create(vehicles, identity, request, VehicleNow, fail))

VehicleList(identity, filters, pagination, fail, overflow_checks) ==
    RespondVehicle("vehicle_list", identity, None,
                   Some([filters |-> filters, pagination |-> pagination]), fail,
                   route_vehicle_list(vehicles, filters, pagination, fail, overflow_checks))

VehicleUpdate(identity, vehicle_id, request, fail) ==
    RespondVehicle("vehicle_update", identity, Some(vehicle_id), Some(request), fail,
                   route_vehicle_update(vehicles, identity, vehicle_id, request, fail))

VehicleGet(identity, vehicle_id, fail) ==
    RespondVehicle("vehicle_get", identity, Some(vehicle_id), None, fail,
                   route_vehicle_get(vehicles, vehicle_id, fail))

\* The response reaches the caller; the next request can be taken.
Deliver ==
    /\ response /= None
    /\ response' = None
    /\ UNCHANGED <<MONGODB_CLIENT, bookings, vehicles, inflight>>

(***************************************************************************)
(* Spec: requests one at a time, no storage failure.  Its inputs: every    *)
(* identity, the seeded car and an id no vehicle has, two dates in every   *)
(* order, every booking id the collection can hold, and every status with  *)
(* every reason.                                                           *)
(***************************************************************************)
BookingIds == 1..MaxBookings

VehicleIds == {1, 3}

Dates == {Date(2024, 6, 1), Date(2024, 6, 10)}

CreateRequests(vids, dates) ==
    {CreateBookingRequest(v, f, t) : v \in vids, f \in dates, t \in dates}

UpdateRequests ==
    {UpdateBookingRequest(None)} \cup {UpdateBookingRequest(Some(s)) : s \in BookingStatus}

Next ==
    \/ \E identity \in Identities, request \in CreateRequests(VehicleIds, Dates) :
          BookingCreate(identity, request, 0)
    \/ \E identity \in Identities : BookingList(identity, 0)
    \/ \E identity \in Identities, id \in BookingIds, request \in UpdateRequests :
          BookingUpdate(identity, id, request, 0)
    \/ \E identity \in Identities, id \in BookingIds : BookingGet(identity, id, 0)
    \/ Deliver

Spec == Init /\ [][Next]_vars

(***************************************************************************)
(* Vocabulary of the properties.                                           *)
(***************************************************************************)
Live == {"PENDING", "CONFIRMED"}
Terminal == {"REJECTED", "CANCELLED"}

\* The edges of the status graph, as <<from, to>> tags.
StatusEdges ==
    { <<"PENDING", "CONFIRMED">>, <<"PENDING", "REJECTED">>, <<"PENDING", "CANCELLED">>,
      <<"CONFIRMED", "REJECTED">>, <<"CONFIRMED", "CANCELLED">> }

Stored(coll, id) == \E i \in 1..Len(coll) : coll[i].id = Some(id)
BookingById(coll, id) == coll[CHOOSE i \in 1..Len(coll) : coll[i].id = Some(id)]

\* The handled request whose response is in flight.
Handling(op) == response /= None /\ response[1].op = op

\* ... an update that carries a status, on a booking the collection held.
StatusUpdate ==
    /\ Handling("update")
    /\ IsSome(response[1].request[1].status)
    /\ Stored(response[1].before, response[1].booking_id[1])

RequestedStatus == response[1].request[1].status[1]
BookingBefore == BookingById(response[1].before, response[1].booking_id[1])
BookingAfter == BookingById(bookings, response[1].booking_id[1])

\* C2: every change of a stored booking's status follows an edge of the status
\* graph; in particular a Rejected or Cancelled booking keeps its status and
\* its reason whatever is requested by whom.
C2_StatusChangesFollowEdges ==
    [][\A i \in 1..Len(bookings) :
          bookings'[i].status /= bookings[i].status
              => <<bookings[i].status.tag, bookings'[i].status.tag>> \in StatusEdges]_vars

\* C2 witness: Admin asked to confirm a Rejected booking; it is still Rejected.
C2_Witness ==
    /\ StatusUpdate
    /\ response[1].identity.role = "Admin"
    /\ BookingBefore.status.tag = "REJECTED"
    /\ RequestedStatus = Confirmed
    /\ BookingAfter.status.tag = "REJECTED"

\* C3: a Customer's update that carries a status succeeds iff the booking is
\* the caller's own, the requested status is Cancelled and the current status
\* is Pending or Confirmed (the stored status then is the requested one); in
\* every other case the result is Forbidden and the collection is unchanged.
C3_CustomerStatusChange ==
    (StatusUpdate /\ response[1].identity.role = "Customer") =>
        LET allowed == /\ BookingBefore.customer_id = response[1].identity.user_id
                       /\ RequestedStatus.tag = "CANCELLED"
                       /\ BookingBefore.status.tag \in Live
        IN  /\ IsOk(response[1].result) <=> allowed
            /\ allowed => BookingAfter = [BookingBefore EXCEPT !.status = RequestedStatus]
            /\ ~allowed => /\ response[1].result.kind = "Forbidden"
                           /\ bookings = response[1].before

\* C3 witness: the owner asked to cancel their own Rejected booking: Forbidden.
C3_Witness ==
    /\ StatusUpdate
    /\ response[1].identity.role = "Customer"
    /\ BookingBefore.customer_id = response[1].identity.user_id
    /\ RequestedStatus.tag = "CANCELLED"
    /\ BookingBefore.status.tag = "REJECTED"
    /\ response[1].result.kind = "Forbidden"

\* C4: an update by Admin, CarManager or MotorbikeManager that carries a status
\* succeeds iff the booking is Pending and Confirmed or Rejected is requested,
\* or it is Confirmed and Rejected is requested, whoever owns the booking and
\* whatever its vehicle; every other request leaves the collection unchanged.
C4_StaffStatusChange ==
    (StatusUpdate /\ response[1].identity.role \in StaffRoles) =>
        LET allowed == \/ /\ BookingBefore.status.tag = "PENDING"
                          /\ RequestedStatus.tag \in {"CONFIRMED", "REJECTED"}
                       \/ /\ BookingBefore.status.tag = "CONFIRMED"
                          /\ RequestedStatus.tag = "REJECTED"
        IN  /\ IsOk(response[1].result) <=> allowed
            /\ allowed => BookingAfter = [BookingBefore EXCEPT !.status = RequestedStatus]
            /\ ~allowed => bookings = response[1].before

\* C4 witness: the MotorbikeManager rejected a customer's Confirmed booking of
\* the car.
C4_Witness ==
    /\ StatusUpdate
    /\ response[1].identity.role = "MotorbikeManager"
    /\ BookingBefore.status = Confirmed
    /\ BookingBefore.vehicle_id = 1
    /\ RequestedStatus.tag = "REJECTED"
    /\ IsOk(response[1].result)
    /\ BookingAfter.status = RequestedStatus

\* C5: an update that requests Pending fails for every role and every current
\* status, Pending included, and the collection is unchanged.
C5_PendingNeverAccepted ==
    (Handling("update") /\ response[1].request[1].status = Some(Pending)) =>
        /\ ~IsOk(response[1].result)
        /\ bookings = response[1].before

\* C5 witness: Pending was requested for a booking that is Pending, and refused.
C5_Witness ==
    /\ StatusUpdate
    /\ RequestedStatus = Pending
    /\ BookingBefore.status = Pending
    /\ response[1].identity.role \in StaffRoles
    /\ ~IsOk(response[1].result)

\* C6: an update with no status on a stored booking succeeds for every staff
\* role and for the owning Customer, whatever the booking's status, and the
\* stored booking is the same after as before.
C6_NoStatusUpdate ==
    ( /\ Handling("update")
      /\ response[1].request[1].status = None
      /\ Stored(response[1].before, response[1].booking_id[1])
      /\ \/ response[1].identity.role \in StaffRoles
         \/ BookingBefore.customer_id = response[1].identity.user_id ) =>
        /\ IsOk(response[1].result)
        /\ BookingAfter.status = BookingBefore.status
        /\ bookings = response[1].before

\* C6 witness: the owner sent an update with no status for their Cancelled
\* booking, and it succeeded.
C6_Witness ==
    /\ Handling("update")
    /\ response[1].request[1].status = None
    /\ Stored(response[1].before, response[1].booking_id[1])
    /\ response[1].identity.role = "Customer"
    /\ BookingBefore.customer_id = response[1].identity.user_id
    /\ BookingBefore.status.tag = "CANCELLED"
    /\ IsOk(response[1].result)

\* C7: a get or an update by a Customer on a booking of another customer is
\* answered Forbidden with no booking in the response, and the collection is
\* unchanged, whatever the update requests.
C7_ForeignBookingForbidden ==
    ( /\ Handling("get") \/ Handling("update")
      /\ response[1].identity.role = "Customer"
      /\ Stored(response[1].before, response[1].booking_id[1])
      /\ BookingBefore.customer_id /= response[1].identity.user_id ) =>
        /\ response[1].result.kind = "Forbidden"
        /\ response[1].result.value = None
        /\ bookings = response[1].before

\* C7 witness: a Customer asked to cancel another customer's Pending booking.
C7_Witness ==
    /\ StatusUpdate
    /\ response[1].identity.role = "Customer"
    /\ BookingBefore.customer_id /= response[1].identity.user_id
    /\ BookingBefore.status = Pending
    /\ RequestedStatus.tag = "CANCELLED"
    /\ response[1].result.kind = "Forbidden"

\* C8: list returns to a Customer exactly the stored bookings whose customer_id
\* is the caller's user_id, and to a staff role every stored booking.
C8_ListScope ==
    Handling("list") =>
        /\ IsOk(response[1].result)
        /\ response[1].result.value =
              SelectSeq(bookings,
                        LAMBDA b : \/ response[1].identity.role \in StaffRoles
                                   \/ b.customer_id = response[1].identity.user_id)

\* C8 witness: a Customer listed while the collection held a booking of theirs
\* and one of another customer.
C8_Witness ==
    /\ Handling("list")
    /\ response[1].identity.role = "Customer"
    /\ \E i, j \in 1..Len(bookings) :
          /\ bookings[i].customer_id = response[1].identity.user_id
          /\ bookings[j].customer_id /= response[1].identity.user_id
    /\ Len(response[1].result.value) = 1

\* C9: a create inserts at most one booking, and the booking inserted is
\* Pending, belongs to the caller and has the vehicle and dates of the request;
\* no other handler inserts.
C9_CreatedPendingForCaller ==
    /\ Handling("create") /\ IsOk(response[1].result) =>
          /\ Len(bookings) = Len(response[1].before) + 1
          /\ LET b == bookings[Len(bookings)]
             IN  /\ b.status = Pending
                 /\ b.customer_id = response[1].identity.user_id
                 /\ b.vehicle_id = response[1].request[1].vehicle_id
                 /\ b.from_date = response[1].request[1].from_date
                 /\ b.to_date = response[1].request[1].to_date
                 /\ response[1].result.value = b
    /\ response /= None /\ bookings /= response[1].before /\ ~Handling("update") =>
          Handling("create") /\ IsOk(response[1].result)

\* C9 witness: customer_user_2 created a booking.
C9_Witness ==
    /\ Handling("create")
    /\ IsOk(response[1].result)
    /\ response[1].identity.user_id = "customer_user_2"
    /\ bookings[Len(bookings)].customer_id = "customer_user_2"

\* A booking without its status.
WithoutStatus(b) == [b EXCEPT !.status = Pending]

\* C17: no step removes a stored booking or changes its id, customer_id,
\* vehicle_id, from_date, to_date or order_date: an update changes at most the
\* status with its reason.
C17_BookingFieldsImmutable ==
    [][/\ Len(bookings') >= Len(bookings)
       /\ \A i \in 1..Len(bookings) :
             WithoutStatus(bookings'[i]) = WithoutStatus(bookings[i])]_vars

\* C17 witness: Admin confirmed a booking of a customer; the stored booking
\* differs from the one before in its status only.
C17_Witness ==
    /\ StatusUpdate
    /\ response[1].identity.role = "Admin"
    /\ IsOk(response[1].result)
    /\ BookingBefore.status = Pending
    /\ BookingAfter = [BookingBefore EXCEPT !.status = Confirmed]
    /\ BookingAfter.customer_id = "customer_user_1"

(***************************************************************************)
(* SpecDates: the creates and status changes of one customer and Admin on  *)
(* the two seeded vehicles, one at a time, with the dates of the overlap   *)
(* example (2024-06-01, 2024-06-10, 2024-06-11) and a date whose year      *)
(* takes five digits, which a request writes "+10000-01-01".               *)
(***************************************************************************)
WideDates == {Date(2024, 6, 1), Date(2024, 6, 10), Date(2024, 6, 11), Date(10000, 1, 1)}

SeededVehicleIds == {1, 2}

\* The dates of the overlap example alone.
ConcurrentDates == {Date(2024, 6, 1), Date(2024, 6, 10), Date(2024, 6, 11)}

NextDates ==
    \/ \E request \in CreateRequests(SeededVehicleIds, WideDates) :
          BookingCreate(api_key_auth_middleware("Customer1"), request, 0)
    \/ \E key \in {"Admin", "Customer1"}, id \in BookingIds,
          status \in {Confirmed, Rejected("r1"), Cancelled("r1")} :
          BookingUpdate(api_key_auth_middleware(key), id, UpdateBookingRequest(Some(status)), 0)
    \/ Deliver

SpecDates == Init /\ [][NextDates]_vars

\* Two date ranges overlap, bounds included.
RangesOverlap(from_a, to_a, from_b, to_b) == DateLeq(from_a, to_b) /\ DateLeq(from_b, to_a)

\* C1: with requests processed one at a time, no two stored bookings of the
\* same vehicle are both Pending or Confirmed with overlapping date ranges.
C1_NoOverlappingLiveBookings ==
    \A i, j \in 1..Len(bookings) :
        ( /\ i /= j
          /\ bookings[i].vehicle_id = bookings[j].vehicle_id
          /\ bookings[i].status.tag \in Live
          /\ bookings[j].status.tag \in Live ) =>
            ~RangesOverlap(bookings[i].from_date, bookings[i].to_date,
                           bookings[j].from_date, bookings[j].to_date)

\* C10: has_overlapping_bookings(v, from, to) is true iff some stored booking
\* of vehicle v is Pending or Confirmed with from_date <= to and to_date >= from.
C10_OverlapQueryExact ==
    \A v \in SeededVehicleIds, from \in WideDates, to \in WideDates :
        has_overlapping_bookings(bookings, v, from, to, FALSE) =
            Ok(\E i \in 1..Len(bookings) :
                  /\ bookings[i].vehicle_id = v
                  /\ bookings[i].status.tag \in Live
                  /\ DateLeq(bookings[i].from_date, to)
                  /\ DateLeq(from, bookings[i].to_date))

(***************************************************************************)
(* SpecRebook: creates of one customer on the seeded car over four dates,  *)
(* which give ranges that overlap, touch and lie apart, and status changes *)
(* by Admin and by the customer, one request at a time.                    *)
(***************************************************************************)
RebookDates == {Date(2024, 6, 1), Date(2024, 6, 10), Date(2024, 6, 11), Date(2024, 6, 20)}

NextRebook ==
    \/ \E request \in CreateRequests({1}, RebookDates) :
          BookingCreate(api_key_auth_middleware("Customer1"), request, 0)
    \/ \E key \in {"Admin", "Customer1"}, id \in BookingIds,
          status \in {Confirmed, Rejected("r1"), Cancelled("r1")} :
          BookingUpdate(api_key_auth_middleware(key), id, UpdateBookingRequest(Some(status)), 0)
    \/ Deliver

SpecRebook == Init /\ [][NextRebook]_vars

\* The create in flight asks for a valid range on a stored vehicle, and no
\* Pending or Confirmed booking of that vehicle overlaps the range.
CreateUnhindered ==
    /\ Handling("create")
    /\ response[1].identity.role = "Customer"
    /\ DateLt(response[1].request[1].from_date, response[1].request[1].to_date)
    /\ \E i \in 1..Len(vehicles) : vehicles[i].id = Some(response[1].request[1].vehicle_id)
    /\ \A i \in 1..Len(response[1].before) :
          LET b == response[1].before[i]
          IN  (b.vehicle_id = response[1].request[1].vehicle_id /\ b.status.tag \in Live) =>
                  ~RangesOverlap(b.from_date, b.to_date,
                                 response[1].request[1].from_date,
                                 response[1].request[1].to_date)

\* The collection the create found held a Rejected or Cancelled booking of
\* the requested vehicle whose range overlaps the requested one.
OverlapsTerminalBooking ==
    \E i \in 1..Len(response[1].before) :
        LET b == response[1].before[i]
        IN  /\ b.vehicle_id = response[1].request[1].vehicle_id
            /\ b.status.tag \in Terminal
            /\ RangesOverlap(b.from_date, b.to_date,
                             response[1].request[1].from_date,
                             response[1].request[1].to_date)

IsPrefix(s, t) == Len(s) <= Len(t) /\ \A i \in 1..Len(s) : s[i] = t[i]

\* The storage operations of a create that runs to its end, in order.
CreateSteps == <<"collect_many", "get_one", "insert_one">>

\* C12: a create issues its storage operations in the order overlap query,
\* vehicle lookup, insert, and stops at the first step that fails: invalid
\* dates issue no operation, a rejection for overlap issues the query only,
\* and an absent vehicle gives NotFound after the lookup with nothing inserted.
C12_CreateStepsInOrder ==
    (Handling("create") /\ response[1].identity.role = "Customer") =>
        LET request == response[1].request[1]
            before  == response[1].before
            valid   == DateLt(request.from_date, request.to_date)
            overlap == has_overlapping_bookings(before, request.vehicle_id,
                                                request.from_date, request.to_date, FALSE).value
            exists  == \E i \in 1..Len(vehicles) : vehicles[i].id = Some(request.vehicle_id)
        IN  /\ IsPrefix(response[1].ops, CreateSteps)
            /\ ~valid =>
                  /\ response[1].ops = <<>>
                  /\ response[1].result = Err("BadRequest")
                  /\ bookings = before
            /\ (valid /\ overlap) =>
                  /\ response[1].ops = <<"collect_many">>
                  /\ response[1].result = Err("BadRequest")
                  /\ bookings = before
            /\ (valid /\ ~overlap /\ ~exists) =>
                  /\ response[1].ops = <<"collect_many", "get_one">>
                  /\ response[1].result = Err("NotFound")
                  /\ bookings = before
            /\ IsOk(response[1].result) => response[1].ops = CreateSteps

\* C12 witness: a create for a vehicle that is not stored ended in NotFound
\* after the overlap query and the lookup, while the vehicle had no booking.
C12_Witness ==
    /\ Handling("create")
    /\ response[1].request[1].vehicle_id = 3
    /\ response[1].ops = <<"collect_many", "get_one">>
    /\ response[1].result = Err("NotFound")
    /\ Len(bookings) > 0

(***************************************************************************)
(* SpecBrandModel: validate_brand_model applied to every brand with every  *)
(* metadata; the application and its result are held in `response`.        *)
(***************************************************************************)
ValidateBrandModel(brand, metadata) ==
    /\ response = None
    /\ response' = Some([op |-> "validate_brand_model", brand |-> brand,
                         metadata |-> metadata,
                         result |-> validate_brand_model(brand, metadata)])
    /\ UNCHANGED <<MONGODB_CLIENT, bookings, vehicles, inflight>>

NextBrandModel ==
    \/ \E brand \in Brand, metadata \in VehicleMetadata : ValidateBrandModel(brand, metadata)
    \/ Deliver

SpecBrandModel == Init /\ [][NextBrandModel]_vars

\* The category a brand belongs to and the models that go with a brand.
BrandCategory(brand) == IF brand \in CarBrands THEN "Car" ELSE "Motorbike"

ModelsOf(brand) ==
    CASE brand = "TESLA" -> TeslaModels
      [] brand = "MERCEDES" -> MercedesModels
      [] OTHER -> MotorbikeModel

\* C18: validate_brand_model accepts iff the brand belongs to the category of
\* the metadata variant and the model is one of the brand's models; a
\* rejection carries the message of the rule that failed: wrong model for the
\* brand, car brand with motorbike metadata, motorbike brand with car metadata.
C18_BrandModelCompatible ==
    Handling("validate_brand_model") =>
        LET brand    == response[1].brand
            metadata == response[1].metadata
            result   == response[1].result
        IN  /\ IsOk(result) <=> /\ BrandCategory(brand) = metadata.type
                                /\ metadata.model \in ModelsOf(brand)
            /\ (BrandCategory(brand) = "Car" /\ metadata.type = "Motorbike") =>
                  result = Err(brand \o " is a car brand and cannot be used with motorbike metadata.")
            /\ (BrandCategory(brand) = "Motorbike" /\ metadata.type = "Car") =>
                  result = Err(brand \o " is a motorbike brand and cannot be used with car metadata.")
            /\ (BrandCategory(brand) = metadata.type /\ metadata.model \notin ModelsOf(brand)) =>
                  result \in {Err("Invalid model for Tesla brand."),
                              Err("Invalid model for Mercedes brand.")}
            /\ result = Err("Invalid model for Tesla brand.") => brand = "TESLA"
            /\ result = Err("Invalid model for Mercedes brand.") => brand = "MERCEDES"

\* C18 witness: TESLA with motorbike metadata was rejected as a car brand.
C18_Witness ==
    /\ Handling("validate_brand_model")
    /\ response[1].brand = "TESLA"
    /\ response[1].metadata.type = "Motorbike"
    /\ response[1].result =
          Err("TESLA is a car brand and cannot be used with motorbike metadata.")

(***************************************************************************)
(* SpecVehicles: the vehicle requests, one at a time, no storage failure.  *)
(* Creates come from Admin and from a customer, with a car brand of each   *)
(* model family and a motorbike brand, metadata of every family with       *)
(* electric and other fuel, and a valid and an invalid price; updates come *)
(* from every identity, on the seeded car, the seeded motorbike and an id  *)
(* that no seeded vehicle has.                                             *)
(***************************************************************************)
CreateVehicleRequests ==
    {CreateVehicleRequest(brand, metadata, None, price, 2020) :
        brand \in {"TESLA", "MERCEDES", "HONDA"},
        metadata \in {Car("MODEL_3", "ELECTRIC"), Car("MODEL_3", "DIESEL"),
                      Car("CYBERTRUCK", "PETROL"), Car("A_CLASS", "DIESEL"),
                      Car("A_CLASS", "ELECTRIC"), Motorbike("CRUISER")},
        price \in {0, 100}}

UpdateVehicleRequests ==
    {UpdateVehicleRequest(None, None), UpdateVehicleRequest(Some("new"), None),
     UpdateVehicleRequest(None, Some(200)), UpdateVehicleRequest(None, Some(0)),
     UpdateVehicleRequest(Some(""), None)}

UpdatedVehicleIds == {1, 2, 4}

NextVehicles ==
    \/ \E key \in {"Admin", "Customer1"}, request \in CreateVehicleRequests :
          VehicleCreate(api_key_auth_middleware(key), request, 0)
    \/ \E identity \in Identities, id \in UpdatedVehicleIds, request \in UpdateVehicleRequests :
          VehicleUpdate(identity, id, request, 0)
    \/ \E identity \in Identities, id \in UpdatedVehicleIds : VehicleGet(identity, id, 0)
    \/ \E identity \in Identities : VehicleList(identity, NoFilters, NoPagination, 0, FALSE)
    \/ Deliver

SpecVehicles == Init /\ [][NextVehicles]_vars

VehicleById(coll, id) == coll[CHOOSE i \in 1..Len(coll) : coll[i].id = Some(id)]

\* C19: a vehicle create whose metadata is a Car of an electric-only model
\* with a fuel type other than ELECTRIC is rejected and inserts nothing; with
\* ELECTRIC and brand TESLA the request passes validate_metadata and
\* validate_brand_model, and Admin's create of it with a valid price succeeds.
C19_ElectricOnlyModels ==
    Handling("vehicle_create") =>
        LET request  == response[1].request[1]
            electric == request.metadata.type = "Car" /\ request.metadata.model \in TeslaModels
        IN  /\ (electric /\ request.metadata.fuel_type /= "ELECTRIC") =>
                  /\ ~IsOk(response[1].result)
                  /\ vehicles = response[1].vehicles_before
            /\ (electric /\ request.metadata.fuel_type = "ELECTRIC" /\ request.brand = "TESLA") =>
                  /\ IsOk(validate_metadata(response[1].identity, request.metadata))
                  /\ IsOk(validate_brand_model(request.brand, request.metadata))
                  /\ (response[1].identity.role = "Admin" /\ request.price_by_day >= 1) =>
                        /\ IsOk(response[1].result)
                        /\ vehicles = Append(response[1].vehicles_before, response[1].result.value)

\* C19 witness: Admin's create of a TESLA MODEL_3 with DIESEL was rejected and
\* the collection is as it was.
C19_Witness ==
    /\ Handling("vehicle_create")
    /\ response[1].identity.role = "Admin"
    /\ response[1].request[1].brand = "TESLA"
    /\ response[1].request[1].metadata = Car("MODEL_3", "DIESEL")
    /\ response[1].request[1].price_by_day >= 1
    /\ ~IsOk(response[1].result)
    /\ vehicles = response[1].vehicles_before

\* The caller's role is competent for the category of the vehicle.
CategoryMatches(role, vehicle) ==
    \/ role = "Admin"
    \/ role = "CarManager" /\ vehicle.metadata.type = "Car"
    \/ role = "MotorbikeManager" /\ vehicle.metadata.type = "Motorbike"

VehicleImmutableFields(v) ==
    <<v.id, v.brand, v.metadata, v.year_of_production, v.added_at, v.added_by>>

\* C21: a vehicle update leaves the collection as long as it was and, of every
\* stored vehicle, leaves id, brand, metadata, year_of_production, added_at
\* and added_by as they were; it changes only the vehicle it names and only
\* when it succeeds; a description absent from the request keeps the stored
\* description, an absent price_by_day the stored price, and a field that is
\* present is stored as requested.
C21_VehicleUpdateFrame ==
    [][(response' /= None /\ response'[1].op = "vehicle_update") =>
          LET request == response'[1].request[1]
              id      == response'[1].vehicle_id
          IN  /\ Len(vehicles') = Len(vehicles)
              /\ \A i \in 1..Len(vehicles) :
                    LET v == vehicles[i]
                        w == vehicles'[i]
                    IN  /\ VehicleImmutableFields(w) = VehicleImmutableFields(v)
                        /\ w /= v => (v.id = id /\ IsOk(response'[1].result))
                        /\ (v.id /= id \/ ~IsSome(request.description)) =>
                              w.description = v.description
                        /\ (v.id /= id \/ ~IsSome(request.price_by_day)) =>
                              w.price_by_day = v.price_by_day
                        /\ (v.id = id /\ IsOk(response'[1].result)) =>
                              /\ IsSome(request.description) =>
                                    w.description = request.description
                              /\ IsSome(request.price_by_day) =>
                                    w.price_by_day = Unwrap(request.price_by_day)
                              /\ response'[1].result.value = w]_vars

\* C21 witness: the car, whose description had been set to "new", was given
\* the price 200 by a request without description: it keeps "new", has the
\* new price and is otherwise the seeded car.
C21_Witness ==
    /\ Handling("vehicle_update")
    /\ IsOk(response[1].result)
    /\ response[1].vehicle_id = Some(1)
    /\ response[1].request[1] = UpdateVehicleRequest(None, Some(200))
    /\ VehicleById(response[1].vehicles_before, 1).description = Some("new")
    /\ VehicleById(response[1].vehicles_before, 1).price_by_day = 5000
    /\ VehicleById(vehicles, 1).description = Some("new")
    /\ VehicleById(vehicles, 1).price_by_day = 200
    /\ VehicleImmutableFields(VehicleById(vehicles, 1)) = VehicleImmutableFields(SeedVehicles[1])

(***************************************************************************)
(* SpecQuery: vehicle lists with up to MaxCriteria criteria, each in every *)
(* shape (an empty list, one value, several values; true and false; each   *)
(* bound), over the seeded vehicles and those Admin adds: a motorbike with *)
(* a sidecar, then a manual two-seater.                                    *)
(***************************************************************************)
\* The values a criterion takes in the requests, None apart.
CriterionValues(criterion) ==
    CASE criterion = "brand" -> <<Some(<<>>), Some(<<"TESLA">>), Some(<<"TESLA", "HONDA">>)>>
      [] criterion = "model" ->
             <<Some(<<>>), Some(<<"MODEL_3">>), Some(<<"CRUISER", "A_CLASS">>)>>
      [] criterion = "year_of_production" ->
             <<Some(<<>>), Some(<<2020>>), Some(<<2020, 2021>>)>>
      [] criterion = "fuel_type" ->
             <<Some(<<>>), Some(<<"ELECTRIC">>), Some(<<"DIESEL", "PETROL">>)>>
      [] criterion = "gearbox" ->
             <<Some(<<>>), Some(<<"MANUAL">>), Some(<<"MANUAL", "AUTOMATIC">>)>>
      [] criterion = "seats" -> <<Some(<<>>), Some(<<5>>), Some(<<2, 5>>)>>
      [] criterion = "engine_cc" -> <<Some(<<>>), Some(<<600>>), Some(<<1500, 2000>>)>>
      [] criterion = "has_sidecar" -> <<Some(TRUE), Some(FALSE)>>
      [] criterion = "min_price" -> <<Some(3000), Some(4000)>>
      [] criterion = "max_price" -> <<Some(3000), Some(4000)>>
      [] criterion = "added_at_from" -> <<Some(0), Some(2)>>
      [] criterion = "added_at_to" -> <<Some(0)>>

\* The criteria sets that name the criteria `present`, each with one of its
\* values.
FiltersNaming(present) ==
    {[criterion \in DOMAIN NoFilters |->
         IF criterion \in present THEN CriterionValues(criterion)[choice[criterion]] ELSE None] :
        choice \in {c \in [present -> 1..3] :
                       \A criterion \in present : c[criterion] <= Len(CriterionValues(criterion))}}

\* The criteria sets that name at most n criteria.
FiltersWith(n) ==
    UNION {FiltersNaming(present) :
              present \in {P \in SUBSET (DOMAIN NoFilters) : Cardinality(P) <= n}}

FiltersInputs == FiltersWith(MaxCriteria)

PriceByDay == <<"p", "r", "i", "c", "e", "_", "b", "y", "_", "d", "a", "y">>

PaginationInputs ==
    {VehiclePagination(Some(2), Some(1), None),
     VehiclePagination(None, Some(2), Some(<<"-">> \o PriceByDay)),
     VehiclePagination(Some(1), None, Some(PriceByDay \o <<",", " ", "x">>))}

\* The vehicles Admin adds, in this order.
QueryVehicleRequests ==
    <<CreateVehicleRequest("YAMAHA", MotorbikeMetadata("SPORTBIKE", 600, TRUE),
                           None, 3500, 2021),
      CreateVehicleRequest("MERCEDES", CarMetadata("A_CLASS", 2, "DIESEL", "MANUAL", 1500),
                           None, 4000, 2021)>>

\* A request is taken when no response waits for delivery.
NextQuery ==
    \/ /\ response = None
       /\ \E filters \in FiltersInputs :
             VehicleList(api_key_auth_middleware("Customer1"), filters, NoPagination, 0, FALSE)
    \/ /\ response = None
       /\ \E filters \in FiltersWith(1), pagination \in PaginationInputs :
             VehicleList(api_key_auth_middleware("Customer1"), filters, pagination, 0, FALSE)
    \/ /\ Len(vehicles) - Len(SeedVehicles) < Len(QueryVehicleRequests)
       /\ VehicleCreate(api_key_auth_middleware("Admin"),
                        QueryVehicleRequests[Len(vehicles) - Len(SeedVehicles) + 1], 0)
    \/ Deliver

SpecQuery == Init /\ [][NextQuery]_vars

\* The criteria that hold a list of values: the field of the clause and the
\* field of VehicleFilters.
MultiValueCriteria ==
    {<<"brand", "brand">>, <<"metadata.fuel_type", "fuel_type">>,
     <<"metadata.gearbox", "gearbox">>, <<"year_of_production", "year_of_production">>,
     <<"metadata.seats", "seats">>, <<"metadata.engine_cc", "engine_cc">>,
     <<"metadata.model", "model">>}

\* The fields the criteria set `filters` constrains.
ConstrainedFields(filters) ==
    {c[1] : c \in {m \in MultiValueCriteria :
                     IsSome(filters[m[2]]) /\ Unwrap(filters[m[2]]) /= <<>>}}
    \cup (IF IsSome(filters.has_sidecar) THEN {"metadata.has_sidecar"} ELSE {})
    \cup (IF IsSome(filters.min_price) \/ IsSome(filters.max_price)
          THEN {"price_by_day"} ELSE {})
    \cup (IF IsSome(filters.added_at_from) \/ IsSome(filters.added_at_to)
          THEN {"added_at"} ELSE {})

\* C22: the filter to_bson_filter builds of the criteria of a vehicle list
\* has one clause for each criterion that is present and no other: none at
\* all, the match-all filter, when no criterion is present; for a list
\* criterion an exact match with one value, a member-of-set clause with
\* several, nothing with an empty list; for has_sidecar an exact match with
\* true as with false.
C22_OneClausePerCriterion ==
    Handling("vehicle_list") =>
        LET filters == response[1].request[1].filters
            filter  == to_bson_filter(filters)
        IN  /\ Keys(filter) = ConstrainedFields(filters)
            /\ Len(filter) = Cardinality(ConstrainedFields(filters))
            /\ filters = NoFilters => filter = DocumentNew
            /\ filter = DocumentNew =>
                  \A i \in 1..Len(vehicles) : Matches(VehicleDocument(vehicles[i]), Query(filter))
            /\ \A m \in MultiValueCriteria :
                  (IsSome(filters[m[2]]) /\ Unwrap(filters[m[2]]) /= <<>>) =>
                      LET vals   == Unwrap(filters[m[2]])
                          clause == DocumentGet(filter, m[1])
                      IN  IF Len(vals) = 1
                          THEN clause.op = "$eq" /\ clause.value = vals[1]
                          ELSE clause.op = "$in" /\ clause.value = vals
            /\ IsSome(filters.has_sidecar) =>
                  DocumentGet(filter, "metadata.has_sidecar") = Eq(Unwrap(filters.has_sidecar))

\* C22 witness: a list by brand TESLA and by fuel DIESEL or PETROL was
\* answered: the filter built is the exact match of the brand followed by
\* the member-of-set clause of the fuel.
C22_Witness ==
    /\ Handling("vehicle_list")
    /\ response[1].request[1].filters =
           [NoFilters EXCEPT !.brand = Some(<<"TESLA">>),
                             !.fuel_type = Some(<<"DIESEL", "PETROL">>)]
    /\ to_bson_filter(response[1].request[1].filters) =
           <<Entry("brand", Eq("TESLA")),
             Entry("metadata.fuel_type", In(<<"DIESEL", "PETROL">>))>>
    /\ IsOk(response[1].result)

\* The ranges of a criteria set: the field and the two bounds.
Ranges(filters) ==
    {<<"price_by_day", filters.min_price, filters.max_price>>,
     <<"added_at", filters.added_at_from, filters.added_at_to>>}

\* C23: add_range_filter writes for a field only the bounds it is given:
\* with neither bound the filter gets no clause for the field; otherwise the
\* clause holds "$gte" with the minimum exactly when a minimum is given and
\* "$lte" with the maximum exactly when a maximum is given, and a stored
\* vehicle satisfies it exactly when its value is not below the minimum given
\* and not above the maximum given.
C23_RangeBoundsAsSupplied ==
    Handling("vehicle_list") =>
        \A range \in Ranges(response[1].request[1].filters) :
            LET field   == range[1]
                min_val == range[2]
                max_val == range[3]
                filter  == add_range_filter(DocumentNew, field, min_val, max_val)
            IN  /\ (~IsSome(min_val) /\ ~IsSome(max_val)) => filter = DocumentNew
                /\ (IsSome(min_val) \/ IsSome(max_val)) =>
                      LET range_doc == DocumentGet(filter, field).value
                      IN  /\ Keys(filter) = {field}
                          /\ DocumentGet(filter, field).op = "$operators"
                          /\ contains_key(range_doc, "$gte") <=> IsSome(min_val)
                          /\ contains_key(range_doc, "$lte") <=> IsSome(max_val)
                          /\ IsSome(min_val) => DocumentGet(range_doc, "$gte") = Unwrap(min_val)
                          /\ IsSome(max_val) => DocumentGet(range_doc, "$lte") = Unwrap(max_val)
                          /\ DocumentGet(to_bson_filter(response[1].request[1].filters), field)
                                = DocumentGet(filter, field)
                          /\ \A i \in 1..Len(vehicles) :
                                Matches(VehicleDocument(vehicles[i]), Query(filter)) <=>
                                    /\ IsSome(min_val) =>
                                          VehicleDocument(vehicles[i])[field] >= Unwrap(min_val)
                                    /\ IsSome(max_val) =>
                                          VehicleDocument(vehicles[i])[field] <= Unwrap(max_val)

\* C23 witness: a list with the minimum price 4000 and no maximum was
\* answered with the seeded car alone, whose price is 5000: the clause has
\* the lower bound and no upper bound.
C23_Witness ==
    /\ Handling("vehicle_list")
    /\ response[1].request[1].filters = [NoFilters EXCEPT !.min_price = Some(4000)]
    /\ response[1].request[1].pagination = NoPagination
    /\ to_bson_filter(response[1].request[1].filters) =
           <<Entry("price_by_day", Operators(<<Entry("$gte", 4000)>>))>>
    /\ Len(vehicles) = 3
    /\ response[1].result = Ok(<<SeedVehicles[1]>>)

\* Orders of the statements of to_bson_filter: the order of the code turned
\* round by k places, and each of these backwards, so that every two
\* statements run in either order.
Reverse(s) == [i \in 1..Len(s) |-> s[Len(s) + 1 - i]]

Rotate(s, k) == SubSeq(s, k + 1, Len(s)) \o SubSeq(s, 1, k)

ClauseOrders ==
    {Rotate(Clauses, k) : k \in 0..(Len(Clauses) - 1)}
    \cup {Reverse(Rotate(Clauses, k)) : k \in 0..(Len(Clauses) - 1)}

\* The stored vehicles a built filter matches.
MatchedVehicles(filter) == MatchingIndexes(vehicles, "vehicles", Query(filter))

\* C26: the filter built again of the criteria of an answered list matches,
\* in the collection the list ran on, exactly the vehicles the list
\* returned; and the vehicles matched are the same when the clauses are
\* inserted in another order.
C26_FilterBuildEquivalent ==
    (Handling("vehicle_list") /\ response[1].request[1].pagination = NoPagination) =>
        LET filters == response[1].request[1].filters
            matched == MatchedVehicles(to_bson_filter(filters))
        IN  /\ vehicles = response[1].vehicles_before
            /\ response[1].result = Ok(SelectSeq(vehicles, LAMBDA v : \E i \in matched : vehicles[i] = v))
            /\ \A order \in ClauseOrders :
                  MatchedVehicles(add_clauses(DocumentNew, filters, order)) = matched

\* C26 witness: a list by brand TESLA with the minimum price 4000 was
\* answered with the seeded car; with the clauses inserted backwards the
\* document built is another one, the price before the brand, and matches
\* the same vehicle.
C26_Witness ==
    /\ Handling("vehicle_list")
    /\ response[1].request[1].pagination = NoPagination
    /\ response[1].request[1].filters =
           [NoFilters EXCEPT !.brand = Some(<<"TESLA">>), !.min_price = Some(4000)]
    /\ Len(vehicles) = 3
    /\ response[1].result = Ok(<<SeedVehicles[1]>>)
    /\ add_clauses(DocumentNew, response[1].request[1].filters, Reverse(Clauses)) =
           <<Entry("price_by_day", Operators(<<Entry("$gte", 4000)>>)),
             Entry("brand", Eq("TESLA"))>>
    /\ add_clauses(DocumentNew, response[1].request[1].filters, Reverse(Clauses))
           /= to_bson_filter(response[1].request[1].filters)
    /\ MatchedVehicles(add_clauses(DocumentNew, response[1].request[1].filters,
                                   Reverse(Clauses))) = {1}

(***************************************************************************)
(* SpecPagination: to_find_options applied to every page and every limit   *)
(* an i64 of IntBits bits holds, each also absent, with and without a      *)
(* sort, in a build with overflow checks and in one without.               *)
(***************************************************************************)
ToFindOptions(pagination, overflow_checks) ==
    /\ response = None
    /\ response' = Some([op |-> "to_find_options", pagination |-> pagination,
                         overflow_checks |-> overflow_checks,
                         result |-> to_find_options(pagination, overflow_checks)])
    /\ UNCHANGED <<MONGODB_CLIENT, bookings, vehicles, inflight>>

OptionalInts == {None} \cup {Some(n) : n \in IntMin..IntMax}

NextPagination ==
    \/ /\ response = None
       /\ \E page \in OptionalInts, limit \in OptionalInts,
             sort \in {None, Some(<<"-", "a">>)}, overflow_checks \in BOOLEAN :
             ToFindOptions(VehiclePagination(page, limit, sort), overflow_checks)
    \/ Deliver

SpecPagination == Init /\ [][NextPagination]_vars

\* The limit the skip of the handled pagination is computed with.
SkipLimit ==
    IF IsSome(response[1].pagination.limit)
    THEN Unwrap(response[1].pagination.limit) ELSE DefaultLimit

\* The skip of the handled pagination, as a number without width.
SkipProduct == (Unwrap(response[1].pagination.page) - 1) * SkipLimit

\* C24: for every page and limit to_find_options returns options whose skip
\* is (page - 1) * limit when a page is given and that product is positive,
\* and absent otherwise; whose limit is the limit of the request, absent when
\* the request has none; the product is taken with 10 when the request has
\* no limit.
C24_SkipIsPageProduct ==
    Handling("to_find_options") =>
        /\ IsOk(response[1].result)
        /\ response[1].result.value.limit = response[1].pagination.limit
        /\ response[1].result.value.skip =
              IF IsSome(response[1].pagination.page) /\ SkipProduct > 0
              THEN Some(SkipProduct) ELSE None

\* Where page - 1 and the product are in the range of i64, the options are
\* as C24 says.
SkipWithinRange ==
    (Handling("to_find_options")
        /\ (IsSome(response[1].pagination.page) =>
               /\ ~Overflows(Unwrap(response[1].pagination.page) - 1)
               /\ ~Overflows(SkipProduct))) =>
        /\ IsOk(response[1].result)
        /\ response[1].result.value.limit = response[1].pagination.limit
        /\ response[1].result.value.skip =
              IF IsSome(response[1].pagination.page) /\ SkipProduct > 0
              THEN Some(SkipProduct) ELSE None

(***************************************************************************)
(* SpecSort: parse_sort_fields applied to every text of up to MaxSortLen   *)
(* characters over two letters, the two prefixes, the comma and the blank. *)
(***************************************************************************)
ParseSortFields(sort_str) ==
    /\ response = None
    /\ response' = Some([op |-> "parse_sort_fields", sort_str |-> sort_str,
                         result |-> parse_sort_fields(sort_str)])
    /\ UNCHANGED <<MONGODB_CLIENT, bookings, vehicles, inflight>>

SortAlphabet == {"a", "b", "-", "+", ",", " "}

SortTexts == UNION {[1..n -> SortAlphabet] : n \in 0..MaxSortLen}

NextSort ==
    \/ /\ response = None
       /\ \E sort_str \in SortTexts : ParseSortFields(sort_str)
    \/ Deliver

SpecSort == Init /\ [][NextSort]_vars

\* The items of a text: where each begins (at the start of the text and
\* behind every comma) and where it ends (before the next comma or at the
\* end of the text).
ItemStarts(s) == {1} \cup {i + 1 : i \in {j \in 1..Len(s) : s[j] = ","}}

ItemEnd(s, start) ==
    IF \E j \in start..Len(s) : s[j] = ","
    THEN (CHOOSE j \in start..Len(s) : s[j] = "," /\ \A k \in start..(j - 1) : s[k] /= ",") - 1
    ELSE Len(s)

\* The positions of an item that hold no blank, and the item without the
\* blanks around it.
NonBlank(s, start) == {i \in start..ItemEnd(s, start) : s[i] \notin Whitespace}

ItemCore(s, start) ==
    LET first == CHOOSE i \in NonBlank(s, start) : \A j \in NonBlank(s, start) : i <= j
        last  == CHOOSE i \in NonBlank(s, start) : \A j \in NonBlank(s, start) : j <= i
    IN  SubSeq(s, first, last)

\* The starts of the items that are not empty, and the k-th of them.
KeptStarts(s) == {start \in ItemStarts(s) : NonBlank(s, start) /= {}}

KeptStart(s, k) ==
    CHOOSE start \in KeptStarts(s) : Cardinality({t \in KeptStarts(s) : t < start}) = k - 1

\* C25: parse_sort_fields returns one (field, direction) pair for each item
\* of the comma-separated text that is not empty once the blanks around it
\* are removed, in the order written: direction -1 and the item without its
\* first character when the item begins with '-', direction 1 and the item
\* without its first character when it begins with '+', direction 1 and the
\* whole item otherwise, whatever the name is.
C25_SortFieldsParsed ==
    Handling("parse_sort_fields") =>
        LET s      == response[1].sort_str
            result == response[1].result
        IN  /\ Len(result) = Cardinality(KeptStarts(s))
            /\ \A k \in 1..Len(result) :
                  LET core == ItemCore(s, KeptStart(s, k))
                  IN  /\ result[k][2] = IF core[1] = "-" THEN -1 ELSE 1
                      /\ result[k][1] = IF core[1] \in {"-", "+"} THEN Tail(core) ELSE core

\* C25 witness: "-a,+b" was parsed to (a, -1), (b, 1).
C25_Witness ==
    /\ Handling("parse_sort_fields")
    /\ response[1].sort_str = <<"-", "a", ",", "+", "b">>
    /\ response[1].result = << <<(<<"a">>), -1>>, <<(<<"b">>), 1>> >>

(***************************************************************************)
(* SpecCreate: booking creates and vehicle creates by every identity, one  *)
(* request at a time, no storage failure.  The bookings name the seeded    *)
(* car or an id no vehicle has, with two dates in every order; the         *)
(* vehicles have a brand that fits the metadata or does not, a fuel the    *)
(* model admits or does not, and a valid or an invalid price.              *)
(***************************************************************************)
CreateInputsVehicle ==
    {CreateVehicleRequest(brand, metadata, None, price, 2020) :
        brand \in {"TESLA", "HONDA"},
        metadata \in {Car("MODEL_3", "ELECTRIC"), Car("MODEL_3", "DIESEL"),
                      Motorbike("CRUISER")},
        price \in {0, 100}}

NextCreate ==
    \/ \E identity \in Identities, request \in CreateRequests(VehicleIds, Dates) :
          BookingCreate(identity, request, 0)
    \/ \E identity \in Identities, request \in CreateInputsVehicle :
          VehicleCreate(identity, request, 0)
    \/ Deliver

SpecCreate == Init /\ [][NextCreate]_vars

\* C27: a booking create by a caller whose role is not Customer is answered
\* Forbidden by the guard of the route, whatever the request, and a vehicle
\* create by a caller whose role is not Admin is refused by the extractor of
\* the body or by the guard of the route; in both cases the controller issued
\* no storage call and the collections are as they were.  So a create that
\* succeeds, or inserts, came from a Customer (booking) or from Admin
\* (vehicle).
C27_CreateRoles ==
    /\ (Handling("create") /\ response[1].identity.role /= "Customer") =>
          /\ response[1].result = Err("Forbidden")
          /\ response[1].ops = <<>>
          /\ bookings = response[1].before
          /\ vehicles = response[1].vehicles_before
    /\ (Handling("vehicle_create") /\ response[1].identity.role /= "Admin") =>
          /\ response[1].result \in {Err("Forbidden"), ExtractorError}
          /\ IsOk(from_request(response[1].identity, response[1].request[1])) =>
                response[1].result = Err("Forbidden")
          /\ response[1].ops = <<>>
          /\ bookings = response[1].before
          /\ vehicles = response[1].vehicles_before
    /\ \A i \in 1..Len(bookings) :
          \E key \in {"Customer1", "Customer2"} :
              bookings[i].customer_id = api_key_auth_middleware(key).user_id
    /\ \A i \in (Len(SeedVehicles) + 1)..Len(vehicles) : vehicles[i].added_by = "Admin"

\* C27 witness: Admin asked for a booking of the seeded car from 2024-06-01
\* to 2024-06-10, which a Customer is given: Forbidden, no storage call, no
\* booking.
C27_Witness ==
    /\ Handling("create")
    /\ response[1].identity.role = "Admin"
    /\ response[1].request[1] = CreateBookingRequest(1, Date(2024, 6, 1), Date(2024, 6, 10))
    /\ response[1].result = Err("Forbidden")
    /\ response[1].ops = <<>>
    /\ bookings = <<>>

(***************************************************************************)
(* SpecFaults: booking and vehicle requests, one at a time, where any one  *)
(* storage call of a request may end in an error: `fail` is the position   *)
(* of that call among the calls of the handler, 0 for none.                *)
(***************************************************************************)
NextFaults ==
    \/ \E request \in CreateRequests(VehicleIds, Dates), fail \in 0..3 :
          BookingCreate(api_key_auth_middleware("Customer1"), request, fail)
    \/ \E key \in {"Admin", "Customer1"}, id \in BookingIds,
          status \in {Confirmed, Cancelled("r1")}, fail \in 0..2 :
          BookingUpdate(api_key_auth_middleware(key), id, UpdateBookingRequest(Some(status)), fail)
    \/ \E key \in {"Admin", "Customer1"}, id \in BookingIds, fail \in 0..1 :
          BookingGet(api_key_auth_middleware(key), id, fail)
    \/ \E key \in {"Admin", "Customer1"}, fail \in 0..1 :
          BookingList(api_key_auth_middleware(key), fail)
    \/ \E metadata \in {Car("MODEL_3", "ELECTRIC"), Car("A_CLASS", "DIESEL")}, fail \in 0..1 :
          VehicleCreate(api_key_auth_middleware("Admin"),
                        CreateVehicleRequest("TESLA", metadata, None, 100, 2020), fail)
    \/ \E id \in {1, 4}, fail \in 0..2 :
          VehicleUpdate(api_key_auth_middleware("Admin"), id,
                        UpdateVehicleRequest(Some("new"), None), fail)
    \/ \E id \in {1, 4}, fail \in 0..1 : VehicleGet(api_key_auth_middleware("Admin"), id, fail)
    \/ \E fail \in 0..1 :
          VehicleList(api_key_auth_middleware("Admin"), NoFilters, NoPagination, fail, FALSE)
    \/ Deliver

SpecFaults == Init /\ [][NextFaults]_vars

\* The request in flight issued the storage call that was made to fail.
FailureHit ==
    /\ response /= None
    /\ response[1].fail >= 1
    /\ Len(response[1].ops) >= response[1].fail

\* ... and that call is the overlap query of a booking create.
OverlapQueryFailed == FailureHit /\ Handling("create") /\ response[1].fail = 1

\* C13: when the overlap query of a create fails, the request ends in an
\* error, no further storage call is issued and no booking is inserted.
C13_OverlapFailureAborts ==
    OverlapQueryFailed =>
        /\ ~IsOk(response[1].result)
        /\ response[1].ops = <<"collect_many">>
        /\ bookings = response[1].before

\* C13 witness: the overlap query failed for a create that succeeds when no
\* storage call fails.
C13_Witness ==
    /\ OverlapQueryFailed
    /\ IsOk(route_create(response[1].before, vehicles, response[1].identity,
                         response[1].request[1], Now, 0).result)
    /\ ~IsOk(response[1].result)
    /\ bookings = response[1].before

\* C14: a storage error raised by the overlap query of a create reaches the
\* caller as InternalServerError.
C14_OverlapFailureIsInternalError ==
    OverlapQueryFailed => response[1].result = Err("InternalServerError")

\* C15: a storage failure in any step of a booking or vehicle create, update,
\* get or list reaches the caller as InternalServerError at that step: the
\* failed call is the last storage call of the request (no retry, nothing
\* issued after it) and the collections are as the request found them.
C15_StorageFailuresFailFast ==
    FailureHit =>
        /\ response[1].result = Err("InternalServerError")
        /\ Len(response[1].ops) = response[1].fail
        /\ bookings = response[1].before
        /\ vehicles = response[1].vehicles_before

\* What C15 states holds of every storage call but the overlap query of a
\* booking create.
FailFastButOverlapQuery ==
    (FailureHit /\ ~OverlapQueryFailed) =>
        /\ response[1].result = Err("InternalServerError")
        /\ Len(response[1].ops) = response[1].fail
        /\ bookings = response[1].before
        /\ vehicles = response[1].vehicles_before

(***************************************************************************)
(* SpecConcurrent: the booking creates of two customers side by side.  A   *)
(* create (controllers/booking.rs) awaits three storage calls; each step   *)
(* below runs one of them with the code up to the next, so the calls of    *)
(* the two requests interleave in every order.  `seen` is the size of the  *)
(* bookings collection when the overlap query of the request ran.          *)
(***************************************************************************)
InFlight(pc, identity, request, seen, result) ==
    [pc |-> pc, op |-> "create", identity |-> identity, request |-> request,
     seen |-> seen, result |-> result]

\* validate_booking_creation: the dates, then the overlap query.
CreateCheck(c, request) ==
    /\ inflight[c] = Idle
    /\ LET identity == api_key_auth_middleware(c)
           valid == validate_booking_creation(bookings, identity, request, FALSE)
       IN  inflight' = [inflight EXCEPT ![c] =
                IF IsOk(valid.result)
                THEN InFlight("get_one", identity, request, Len(bookings), None)
                ELSE InFlight("done", identity, request, Len(bookings),
                              Some(Err("BadRequest")))]
    /\ UNCHANGED <<MONGODB_CLIENT, bookings, vehicles, response>>

\* get_one of the vehicle.
CreateLookup(c) ==
    /\ inflight[c].pc = "get_one"
    /\ LET vehicle == get_one(vehicles, "vehicles",
                              IdFilter(inflight[c].request.vehicle_id), FALSE)
       IN  inflight' = [inflight EXCEPT ![c] =
                IF IsSome(vehicle.value)
                THEN [@ EXCEPT !.pc = "insert_one"]
                ELSE [@ EXCEPT !.pc = "done", !.result = Some(Err("NotFound"))]]
    /\ UNCHANGED <<MONGODB_CLIENT, bookings, vehicles, response>>

\* Booking::new and insert_one.
CreateInsert(c) ==
    /\ inflight[c].pc = "insert_one"
    /\ Len(bookings) < MaxBookings
    /\ LET booking == BookingNew(inflight[c].request, inflight[c].identity.user_id, Now)
           inserted == insert_one(bookings, booking, FALSE)
       IN  /\ bookings' = inserted.coll
           /\ inflight' = [inflight EXCEPT ![c] =
                 [@ EXCEPT !.pc = "done",
                           !.result = IF IsOk(inserted.result)
                                      THEN Some(Ok([booking EXCEPT
                                                      !.id = Some(inserted.result.value)]))
                                      ELSE Some(inserted.result)]]
    /\ UNCHANGED <<MONGODB_CLIENT, vehicles, response>>

\* The response is returned; the client can send its next request.
Return(c) ==
    /\ inflight[c].pc = "done"
    /\ inflight' = [inflight EXCEPT ![c] = Idle]
    /\ UNCHANGED <<MONGODB_CLIENT, bookings, vehicles, response>>

NextConcurrent ==
    \/ \E c \in Clients, request \in CreateRequests(VehicleIds, ConcurrentDates) :
          CreateCheck(c, request)
    \/ \E c \in Clients : CreateLookup(c)
    \/ \E c \in Clients : CreateInsert(c)
    \/ \E c \in Clients : Return(c)

SpecConcurrent == Init /\ [][NextConcurrent]_vars

\* Clients c and d have both finished a create for the same stored vehicle,
\* with overlapping ranges, whose overlap queries both found no conflict in a
\* collection of the same size: both queries ran before either insert.
BothCheckedBeforeEitherInsert(c, d) ==
    /\ c /= d
    /\ inflight[c].pc = "done" /\ inflight[d].pc = "done"
    /\ inflight[c].result /= Some(Err("BadRequest"))
    /\ inflight[d].result /= Some(Err("BadRequest"))
    /\ inflight[c].seen = inflight[d].seen
    /\ inflight[c].request.vehicle_id = inflight[d].request.vehicle_id
    /\ \E i \in 1..Len(vehicles) : vehicles[i].id = Some(inflight[c].request.vehicle_id)
    /\ RangesOverlap(inflight[c].request.from_date, inflight[c].request.to_date,
                     inflight[d].request.from_date, inflight[d].request.to_date)

\* The store holds the bookings the two creates returned, both Pending, of the
\* same vehicle, with overlapping ranges.
TwoOverlappingPending(c, d) ==
    /\ IsOk(inflight[c].result[1]) /\ IsOk(inflight[d].result[1])
    /\ \E i, j \in 1..Len(bookings) :
          /\ i /= j
          /\ bookings[i] = inflight[c].result[1].value
          /\ bookings[j] = inflight[d].result[1].value
          /\ bookings[i].status = Pending /\ bookings[j].status = Pending
          /\ bookings[i].vehicle_id = bookings[j].vehicle_id
          /\ RangesOverlap(bookings[i].from_date, bookings[i].to_date,
                           bookings[j].from_date, bookings[j].to_date)

\* C16: when the overlap queries of two concurrent creates for the same
\* vehicle with overlapping valid ranges both run before either insert, both
\* requests succeed and the store holds two Pending bookings of that vehicle
\* with overlapping ranges.
C16_BothCreatesSucceed ==
    \A c, d \in Clients :
        BothCheckedBeforeEitherInsert(c, d) => TwoOverlappingPending(c, d)

\* C16 witness: that interleaving has happened: both customers hold the
\* booking they were returned, and the two overlap on the seeded car.
C16_Witness ==
    /\ BothCheckedBeforeEitherInsert("Customer1", "Customer2")
    /\ TwoOverlappingPending("Customer1", "Customer2")
    /\ inflight["Customer1"].request.vehicle_id = 1
    /\ inflight["Customer1"].seen = 0

(***************************************************************************)
(* SpecUpdates: the booking updates of Admin and of a customer side by     *)
(* side.  An update (controllers/booking.rs) awaits get_one and then       *)
(* find_one_and_replace; UpdateRead runs the first with the validation and *)
(* the assignment that follow it, UpdateReplace the second, so the calls   *)
(* of the two requests interleave in every order.  The customer's booking  *)
(* is created by a request handled at once.                                *)
(***************************************************************************)
UpdateClients == {"Admin", "Customer1"}

InitUpdates ==
    /\ bookings = <<>>
    /\ vehicles = SeedVehicles
    /\ response = None
    /\ inflight = [c \in UpdateClients |-> Idle]
    /\ MONGODB_CLIENT = OnceCellNew

UpdateInFlight(pc, identity, booking_id, request, read, booking, result) ==
    [pc |-> pc, op |-> "update", identity |-> identity, booking_id |-> booking_id,
     request |-> request, read |-> read, booking |-> booking, result |-> result]

\* get_one of the booking, validate_update_booking, and the new status put
\* into the booking read.
UpdateRead(c, booking_id, request) ==
    /\ inflight[c] = Idle
    /\ LET identity == api_key_auth_middleware(c)
           found == get_one(bookings, "bookings", IdFilter(booking_id), FALSE)
           booking == Unwrap(found.value)
           valid == validate_update_booking(identity, booking, request)
           updated == IF IsSome(request.status)
                      THEN [booking EXCEPT !.status = Unwrap(request.status)]
                      ELSE booking
       IN  inflight' = [inflight EXCEPT ![c] =
                IF ~IsSome(found.value)
                THEN UpdateInFlight("done", identity, booking_id, request, None, None,
                                    Some(Err("NotFound")))
                ELSE IF ~IsOk(valid)
                THEN UpdateInFlight("done", identity, booking_id, request, Some(booking),
                                    None, Some(valid))
                ELSE UpdateInFlight("find_one_and_replace", identity, booking_id, request,
                                    Some(booking), Some(updated), None)]
    /\ UNCHANGED <<MONGODB_CLIENT, bookings, vehicles, response>>

\* find_one_and_replace of the booking by its id.
UpdateReplace(c) ==
    /\ inflight[c].pc = "find_one_and_replace"
    /\ LET replaced == find_one_and_replace(bookings, "bookings",
                                            IdFilter(inflight[c].booking_id),
                                            Unwrap(inflight[c].booking), FALSE)
       IN  /\ bookings' = replaced.coll
           /\ inflight' = [inflight EXCEPT ![c] =
                 [@ EXCEPT !.pc = "done",
                           !.result = IF IsSome(replaced.result.value)
                                      THEN Some(Ok(Unwrap(replaced.result.value)))
                                      ELSE Some(Err("InternalServerError"))]]
    /\ UNCHANGED <<MONGODB_CLIENT, vehicles, response>>

ConcurrentUpdateRequests ==
    {UpdateBookingRequest(Some(s)) :
        s \in {Pending, Confirmed, Rejected("r1"), Cancelled("r1")}}

NextUpdates ==
    \/ BookingCreate(api_key_auth_middleware("Customer1"),
                     CreateBookingRequest(1, Date(2024, 6, 1), Date(2024, 6, 10)), 0)
    \/ Deliver
    \/ \E c \in UpdateClients, id \in BookingIds, request \in ConcurrentUpdateRequests :
          UpdateRead(c, id, request)
    \/ \E c \in UpdateClients : UpdateReplace(c)
    \/ \E c \in UpdateClients : Return(c)

SpecUpdates == InitUpdates /\ [][NextUpdates]_vars

\* C28: in every interleaving of the reads and the replaces of concurrent
\* updates, every change of a stored booking's status follows an edge of the
\* status graph: no status follows Rejected or Cancelled, and Pending follows
\* none.
C28_ConcurrentStatusChangesFollowEdges ==
    [][\A i \in 1..Len(bookings) :
          bookings'[i].status.tag /= bookings[i].status.tag
              => <<bookings[i].status.tag, bookings'[i].status.tag>> \in StatusEdges]_vars

\* What every interleaving keeps: the status a replace stores follows, by an
\* edge, the status its own request read.
ReplaceFollowsRead ==
    \A c \in UpdateClients :
        inflight[c].pc = "find_one_and_replace" =>
            LET read == Unwrap(inflight[c].read).status.tag
                new  == Unwrap(inflight[c].booking).status.tag
            IN  new /= read => <<read, new>> \in StatusEdges

(***************************************************************************)
(* The booking an update returns.  The controller returns what             *)
(* find_one_and_replace returns, and the call is made without options.     *)
(***************************************************************************)
\* C29: a successful update that carries a status returns the booking as it
\* is stored after the update, with the requested status.
C29_UpdateReturnsStoredBooking ==
    (StatusUpdate /\ IsOk(response[1].result)) =>
        /\ response[1].result.value.status = RequestedStatus
        /\ response[1].result.value = BookingAfter

\* What the update returns instead: the booking as the replace found it,
\* while the stored booking carries the requested status.
UpdateReturnsReplacedBooking ==
    (StatusUpdate /\ IsOk(response[1].result)) =>
        /\ response[1].result.value = BookingBefore
        /\ BookingAfter = [BookingBefore EXCEPT !.status = RequestedStatus]

(***************************************************************************)
(* The date range of a stored booking, in the calendar order of NaiveDate. *)
(***************************************************************************)
\* C30: every stored booking has from_date strictly before to_date; the
\* controller's create answers a request whose from_date is not before its
\* to_date, equal dates included, with BadRequest and stores nothing, for
\* whoever calls it and in every reachable state, and so does the request of
\* a Customer, whom the route lets through to the controller; an update
\* leaves the dates of every booking as they were.
C30_FromDateBeforeToDate ==
    /\ \A i \in 1..Len(bookings) : DateLt(bookings[i].from_date, bookings[i].to_date)
    /\ \A identity \in Identities, request \in CreateRequests(VehicleIds, Dates) :
          ~DateLt(request.from_date, request.to_date) =>
              LET out == create(bookings, vehicles, identity, request, Now, 0)
              IN  /\ out.result.kind = "BadRequest"
                  /\ out.bookings = bookings
    /\ (response /= None /\ response[1].op = "create"
           /\ response[1].identity.role = "Customer") =>
          LET request == response[1].request[1]
          IN  ~DateLt(request.from_date, request.to_date) =>
                /\ response[1].result.kind = "BadRequest"
                /\ bookings = response[1].before
    /\ (response /= None /\ response[1].op = "update") =>
          /\ Len(bookings) = Len(response[1].before)
          /\ \A i \in 1..Len(bookings) :
                /\ bookings[i].from_date = response[1].before[i].from_date
                /\ bookings[i].to_date = response[1].before[i].to_date

\* C30 witness: with a booking stored, a create whose from_date equals its
\* to_date was answered BadRequest.
C30_Witness ==
    /\ response /= None
    /\ response[1].op = "create"
    /\ response[1].identity.role = "Customer"
    /\ response[1].request[1].from_date = response[1].request[1].to_date
    /\ response[1].result.kind = "BadRequest"
    /\ Len(bookings) >= 1

(***************************************************************************)
(* The stored vehicles.  A price is counted in hundredths, so the least    *)
(* price the requests' range(min = 0.01) lets through is 1.                *)
(***************************************************************************)
VehicleWellFormed(vehicle) ==
    /\ BrandCategory(vehicle.brand) = vehicle.metadata.type
    /\ vehicle.metadata.model \in ModelsOf(vehicle.brand)
    /\ (vehicle.metadata.type = "Car" /\ vehicle.metadata.model \in TeslaModels)
          => vehicle.metadata.fuel_type = "ELECTRIC"
    /\ vehicle.price_by_day > 0

\* C31: every stored vehicle has a brand of the category of its metadata
\* variant, a model of its brand's model set, fuel type ELECTRIC if it is a
\* Car of the electric-only family, and a price above 0; the vehicle a
\* successful create or update returns is such a vehicle.
C31_StoredVehiclesWellFormed ==
    /\ \A i \in 1..Len(vehicles) : VehicleWellFormed(vehicles[i])
    /\ (response /= None /\ response[1].op \in {"vehicle_create", "vehicle_update"}
           /\ IsOk(response[1].result))
          => VehicleWellFormed(response[1].result.value)

\* C31 witness: with a created vehicle stored beside the seeded ones, an
\* update by Admin that set a price was stored.
C31_Witness ==
    /\ Len(vehicles) > Len(SeedVehicles)
    /\ Handling("vehicle_update")
    /\ response[1].identity.role = "Admin"
    /\ IsSome(response[1].request[1].price_by_day)
    /\ IsOk(response[1].result)
    /\ vehicles /= response[1].vehicles_before

(***************************************************************************)
(* The error of a refused status change.                                   *)
(***************************************************************************)
\* C32: a staff update that asks for Cancelled or Pending is Forbidden
\* whatever the current status is, a terminal one included; one that asks for
\* Confirmed on a Confirmed booking, or for Confirmed or Rejected on a
\* Rejected or Cancelled booking, is a BadRequest; every status change
\* refused to a Customer is Forbidden.
C32_RefusedStatusChangeErrors ==
    StatusUpdate =>
        LET role    == response[1].identity.role
            current == BookingBefore.status.tag
            new     == RequestedStatus.tag
            kind    == response[1].result.kind
        IN  /\ (role \in StaffRoles /\ new \in {"CANCELLED", "PENDING"})
                  => kind = "Forbidden"
            /\ ( /\ role \in StaffRoles
                 /\ \/ current = "CONFIRMED" /\ new = "CONFIRMED"
                    \/ current \in {"REJECTED", "CANCELLED"} /\ new \in {"CONFIRMED", "REJECTED"} )
                  => kind = "BadRequest"
            /\ (role = "Customer" /\ kind /= "Ok") => kind = "Forbidden"

\* C32 witness: a manager asked for Cancelled on a Cancelled booking and got
\* Forbidden, not the BadRequest of a terminal status.
C32_Witness ==
    /\ StatusUpdate
    /\ response[1].identity.role = "CarManager"
    /\ BookingBefore.status.tag = "CANCELLED"
    /\ RequestedStatus.tag = "CANCELLED"
    /\ response[1].result.kind = "Forbidden"
    /\ bookings = response[1].before

(***************************************************************************)
(* A booking id that is not stored.                                        *)
(***************************************************************************)
\* C33: an update of an id that is not stored is answered NotFound after the
\* one lookup and writes nothing, whoever asks, while a Customer's update of
\* a stored booking of another customer is answered Forbidden; the
\* controller's get of an id that is not stored returns Ok with no booking.
C33_AbsentBooking ==
    /\ (Handling("update") /\ ~Stored(response[1].before, response[1].booking_id[1])) =>
          /\ response[1].result = Err("NotFound")
          /\ response[1].ops = <<"get_one">>
          /\ bookings = response[1].before
    /\ ( /\ Handling("update")
         /\ Stored(response[1].before, response[1].booking_id[1])
         /\ response[1].identity.role = "Customer"
         /\ BookingBefore.customer_id /= response[1].identity.user_id ) =>
          /\ response[1].result.kind = "Forbidden"
          /\ bookings = response[1].before
    /\ \A identity \in Identities, id \in BookingIds :
          ~Stored(bookings, id) => get(bookings, identity, id, 0).result = Ok(None)

\* C33 witness: with the booking of one customer stored, the other customer
\* asked to cancel a booking id that is not stored and got NotFound.
C33_Witness ==
    /\ Handling("update")
    /\ response[1].identity.user_id = "customer_user_2"
    /\ response[1].request[1].status = Some(Cancelled("r1"))
    /\ Len(response[1].before) = 1
    /\ response[1].before[1].customer_id = "customer_user_1"
    /\ ~Stored(response[1].before, response[1].booking_id[1])
    /\ response[1].result = Err("NotFound")
    /\ bookings = response[1].before

(***************************************************************************)
(* SpecVehicleBookings: a customer books the seeded car and the seeded     *)
(* motorbike, and every caller lists the bookings of either vehicle and of *)
(* a vehicle that is not stored, with each of the two storage calls of the *)
(* listing made to fail in turn.                                           *)
(***************************************************************************)
VehicleListBookings(identity, vehicle_id, fail) ==
    /\ response = None
    /\ LET out == route_list_bookings(bookings, vehicles, identity, vehicle_id, fail)
       IN  response' = Handled("list_bookings", identity, None, Some(vehicle_id), None,
                               fail, out.result, out.ops)
    /\ UNCHANGED <<MONGODB_CLIENT, bookings, vehicles, inflight>>

ListedVehicleIds == {1, 2, 3}

NextVehicleBookings ==
    \/ \E request \in CreateRequests(SeededVehicleIds, Dates) :
          BookingCreate(api_key_auth_middleware("Customer1"), request, 0)
    \/ \E identity \in Identities, id \in ListedVehicleIds, fail \in 0..2 :
          VehicleListBookings(identity, id, fail)
    \/ Deliver

SpecVehicleBookings == Init /\ [][NextVehicleBookings]_vars

\* C34: with no storage failure, the listing of a vehicle's bookings is Ok
\* exactly when the vehicle is stored and the caller is Admin, CarManager for
\* a Car or MotorbikeManager for a Motorbike, and the list then is the stored
\* bookings of that vehicle, in stored order; a manager of the other
\* category and a Customer get Forbidden, and a staff caller asking for a
\* vehicle that is not stored gets NotFound.
C34_VehicleBookingsListing ==
    (Handling("list_bookings") /\ response[1].fail = 0) =>
        LET role    == response[1].identity.role
            id      == response[1].vehicle_id[1]
            stored  == \E i \in 1..Len(vehicles) : vehicles[i].id = Some(id)
            vehicle == VehicleById(vehicles, id)
            manages == \/ role = "Admin"
                       \/ role = "CarManager" /\ vehicle.metadata.type = "Car"
                       \/ role = "MotorbikeManager" /\ vehicle.metadata.type = "Motorbike"
        IN  /\ IsOk(response[1].result) <=> (stored /\ manages)
            /\ IsOk(response[1].result) =>
                  response[1].result.value = SelectSeq(bookings, LAMBDA b : b.vehicle_id = id)
            /\ (role \in StaffRoles /\ ~stored) => response[1].result.kind = "NotFound"
            /\ (role \in StaffRoles /\ stored /\ ~manages) => response[1].result.kind = "Forbidden"
            /\ role = "Customer" => response[1].result.kind = "Forbidden"
            /\ bookings = response[1].before

\* C34 witness: with a booking of the car and a booking of the motorbike
\* stored, MotorbikeManager listed the motorbike's bookings and got the one.
C34_Witness ==
    /\ Handling("list_bookings")
    /\ response[1].identity.role = "MotorbikeManager"
    /\ response[1].vehicle_id = Some(2)
    /\ Len(bookings) = 2
    /\ \E i \in 1..2 : bookings[i].vehicle_id = 1
    /\ IsOk(response[1].result)
    /\ Len(response[1].result.value) = 1
    /\ response[1].result.value[1].vehicle_id = 2

(***************************************************************************)
(* SpecVehicleUpdates: the vehicle updates of Admin and of CarManager side *)
(* by side.  An update (controllers/vehicle.rs) awaits get_one and then    *)
(* find_one_and_replace of the whole vehicle; VehicleUpdateRead runs the   *)
(* first with the validation and the assignments that follow it,           *)
(* VehicleUpdateReplace the second.  One kind of request sets the          *)
(* description only, the other the price only.                             *)
(***************************************************************************)
VehicleUpdateClients == {"Admin", "CarManager"}

InitVehicleUpdates ==
    /\ bookings = <<>>
    /\ vehicles = SeedVehicles
    /\ response = None
    /\ inflight = [c \in VehicleUpdateClients |-> Idle]
    /\ MONGODB_CLIENT = OnceCellNew

VehicleUpdateInFlight(pc, identity, vehicle_id, request, vehicle, result) ==
    [pc |-> pc, op |-> "vehicle_update", identity |-> identity, vehicle_id |-> vehicle_id,
     request |-> request, vehicle |-> vehicle, result |-> result]

\* get_one of the vehicle, validate_update_vehicle, and the fields of the
\* request put into the vehicle read.
VehicleUpdateRead(c, vehicle_id, request) ==
    /\ inflight[c] = Idle
    /\ LET identity == api_key_auth_middleware(c)
           found == get_one(vehicles, "vehicles", IdFilter(vehicle_id), FALSE)
           vehicle == Unwrap(found.value)
           valid == validate_update_vehicle(identity, vehicle, request)
           described == IF IsSome(request.description)
                        THEN [vehicle EXCEPT !.description = request.description]
                        ELSE vehicle
           updated == IF IsSome(request.price_by_day)
                      THEN [described EXCEPT !.price_by_day = Unwrap(request.price_by_day)]
                      ELSE described
       IN  inflight' = [inflight EXCEPT ![c] =
                IF ~IsSome(found.value)
                THEN VehicleUpdateInFlight("done", identity, vehicle_id, request, None,
                                           Some(Err("NotFound")))
                ELSE IF ~IsOk(valid)
                THEN VehicleUpdateInFlight("done", identity, vehicle_id, request, None,
                                           Some(valid))
                ELSE VehicleUpdateInFlight("find_one_and_replace", identity, vehicle_id,
                                           request, Some(updated), None)]
    /\ UNCHANGED <<MONGODB_CLIENT, bookings, vehicles, response>>

\* find_one_and_replace of the vehicle by its id; the controller returns the
\* vehicle it wrote.
VehicleUpdateReplace(c) ==
    /\ inflight[c].pc = "find_one_and_replace"
    /\ LET replaced == find_one_and_replace(vehicles, "vehicles",
                                            IdFilter(inflight[c].vehicle_id),
                                            Unwrap(inflight[c].vehicle), FALSE)
       IN  /\ vehicles' = replaced.coll
           /\ inflight' = [inflight EXCEPT ![c] =
                 [@ EXCEPT !.pc = "done",
                           !.result = IF IsSome(replaced.result.value)
                                      THEN Some(Ok(Unwrap(inflight[c].vehicle)))
                                      ELSE Some(Err("InternalServerError"))]]
    /\ UNCHANGED <<MONGODB_CLIENT, bookings, response>>

DescriptionOnly == UpdateVehicleRequest(Some("new"), None)

PriceOnly == UpdateVehicleRequest(None, Some(200))

ConcurrentVehicleUpdateRequests == {DescriptionOnly, PriceOnly}

NextVehicleUpdates ==
    \/ \E c \in VehicleUpdateClients, id \in ListedVehicleIds,
          request \in ConcurrentVehicleUpdateRequests :
          VehicleUpdateRead(c, id, request)
    \/ \E c \in VehicleUpdateClients : VehicleUpdateReplace(c)
    \/ \E c \in VehicleUpdateClients : Return(c)

SpecVehicleUpdates == InitVehicleUpdates /\ [][NextVehicleUpdates]_vars

\* Both clients have an update of the one vehicle answered Ok, the one
\* setting the description only and the other the price only.
BothUpdatesSucceeded(id) ==
    /\ \A c \in VehicleUpdateClients :
          /\ inflight[c].pc = "done"
          /\ inflight[c].vehicle_id = id
          /\ IsOk(inflight[c].result[1])
    /\ \E c \in VehicleUpdateClients : inflight[c].request = DescriptionOnly
    /\ \E c \in VehicleUpdateClients : inflight[c].request = PriceOnly

\* C35: once an update setting the description only and an update setting
\* the price only, of the same vehicle and running side by side, have both
\* succeeded, the stored vehicle carries the new description and the new
\* price.
C35_NoVehicleUpdateLost ==
    \A id \in ListedVehicleIds :
        BothUpdatesSucceeded(id) =>
            /\ VehicleById(vehicles, id).description = DescriptionOnly.description
            /\ VehicleById(vehicles, id).price_by_day = Unwrap(PriceOnly.price_by_day)

\* What every interleaving keeps: the stored vehicle carries what the update
\* that replaced it last has set.
LastReplaceStored ==
    \A id \in ListedVehicleIds :
        BothUpdatesSucceeded(id) =>
            \/ VehicleById(vehicles, id).description = DescriptionOnly.description
            \/ VehicleById(vehicles, id).price_by_day = Unwrap(PriceOnly.price_by_day)

(***************************************************************************)
(* SpecClient: get_mongodb_client called by the first storage call of      *)
(* requests that run side by side.  GetClient is the check of the cell on  *)
(* entry, Acquire the wait for the permit, Connected and ConnectFailed the *)
(* two ends of the initializer (options parsed, client built, ping sent),  *)
(* Dropped a request whose future is dropped while it waits.               *)
(***************************************************************************)
ClientCallers == {"Admin", "CarManager", "Customer1", "Customer2"}

InitClient ==
    /\ bookings = <<>>
    /\ vehicles = SeedVehicles
    /\ response = None
    /\ inflight = [c \in ClientCallers |-> Idle]
    /\ MONGODB_CLIENT = OnceCellNew

ClientCall(pc, result) == [pc |-> pc, op |-> "get_mongodb_client", result |-> result]

GetClient(c) ==
    /\ inflight[c] = Idle
    /\ inflight' = [inflight EXCEPT ![c] =
          IF initialized(MONGODB_CLIENT)
          THEN ClientCall("done", Some(Ok(Unwrap(MONGODB_CLIENT.value))))
          ELSE ClientCall("acquire", None)]
    /\ UNCHANGED <<bookings, vehicles, response, MONGODB_CLIENT>>

Acquire(c) ==
    /\ inflight[c].pc = "acquire"
    /\ IF initialized(MONGODB_CLIENT)
       THEN /\ inflight' = [inflight EXCEPT ![c] =
                  ClientCall("done", Some(Ok(Unwrap(MONGODB_CLIENT.value))))]
            /\ UNCHANGED MONGODB_CLIENT
       ELSE /\ acquire(MONGODB_CLIENT)
            /\ MONGODB_CLIENT' = [MONGODB_CLIENT EXCEPT !.permit = Some(c)]
            /\ inflight' = [inflight EXCEPT ![c] = ClientCall("init", None)]
    /\ UNCHANGED <<bookings, vehicles, response>>

Connected(c) ==
    /\ inflight[c].pc = "init"
    /\ MONGODB_CLIENT.connects < MaxConnects
    /\ MONGODB_CLIENT' = set_value(MONGODB_CLIENT, MONGODB_CLIENT.connects + 1)
    /\ inflight' = [inflight EXCEPT ![c] =
          ClientCall("done", Some(Ok(MONGODB_CLIENT.connects + 1)))]
    /\ UNCHANGED <<bookings, vehicles, response>>

ConnectFailed(c) ==
    /\ inflight[c].pc = "init"
    /\ MONGODB_CLIENT' = release(MONGODB_CLIENT)
    /\ inflight' = [inflight EXCEPT ![c] = ClientCall("done", Some(StorageError))]
    /\ UNCHANGED <<bookings, vehicles, response>>

Dropped(c) ==
    /\ inflight[c].pc \in {"acquire", "init"}
    /\ MONGODB_CLIENT' = IF inflight[c].pc = "init" THEN release(MONGODB_CLIENT)
                         ELSE MONGODB_CLIENT
    /\ inflight' = [inflight EXCEPT ![c] = Idle]
    /\ UNCHANGED <<bookings, vehicles, response>>

NextClient ==
    \/ \E c \in ClientCallers : GetClient(c)
    \/ \E c \in ClientCallers : Acquire(c)
    \/ \E c \in ClientCallers : Connected(c)
    \/ \E c \in ClientCallers : ConnectFailed(c)
    \/ \E c \in ClientCallers : Dropped(c)
    \/ \E c \in ClientCallers : Return(c)

SpecClient == InitClient /\ [][NextClient]_vars

\* C36: in every interleaving, at most one client is ever built with success
\* and every request that obtains a client obtains the one the cell holds;
\* the value of the cell, once set, never changes; an initializer that fails
\* leaves the cell without value and its permit free, and its error goes to
\* the request that ran it; a request that finds the cell without value
\* goes on to wait for the permit, to run the initializer itself.
C36_ClientInitializedOnce ==
    /\ [](/\ MONGODB_CLIENT.connects <= 1
          /\ \A c \in ClientCallers :
                (inflight[c].pc = "done" /\ IsOk(inflight[c].result[1])) =>
                    MONGODB_CLIENT.value = Some(inflight[c].result[1].value))
    /\ [][/\ initialized(MONGODB_CLIENT) => MONGODB_CLIENT' = MONGODB_CLIENT
          /\ \A c \in ClientCallers :
                /\ (inflight[c].pc = "init" /\ inflight'[c].pc = "done"
                      /\ ~IsOk(inflight'[c].result[1])) =>
                        /\ MONGODB_CLIENT' = OnceCellNew
                        /\ inflight'[c].result = Some(StorageError)
                        /\ \A d \in ClientCallers \ {c} : inflight'[d] = inflight[d]
                /\ (inflight[c] = Idle /\ inflight'[c] /= Idle
                      /\ ~initialized(MONGODB_CLIENT)) => inflight'[c].pc = "acquire"
                /\ (inflight[c].pc = "acquire" /\ inflight'[c].pc = "done") =>
                        initialized(MONGODB_CLIENT)]_vars

\* C36 witness: the initializer of one request failed, a later request ran
\* it again with success, and a third obtained the same client.
C36_Witness ==
    /\ inflight["Admin"].pc = "done"
    /\ inflight["Admin"].result = Some(StorageError)
    /\ inflight["Customer1"].pc = "done"
    /\ inflight["Customer1"].result = Some(Ok(1))
    /\ inflight["Customer2"].pc = "done"
    /\ inflight["Customer2"].result = Some(Ok(1))
    /\ MONGODB_CLIENT.value = Some(1)

(***************************************************************************)
(* SpecCommaSeparated: deserialize_comma_separated applied to the seats    *)
(* parameter of a vehicle list, absent or any text of up to MaxSortLen     *)
(* characters over digits, '+', comma and blank, followed by the seats     *)
(* clause of to_bson_filter when the parameter was deserialized.           *)
(***************************************************************************)
DeserializeCommaSeparated(s) ==
    /\ response = None
    /\ LET result == deserialize_comma_separated(s)
       IN  response' = Some([op |-> "deserialize_comma_separated", s |-> s,
                             result |-> result,
                             filter |-> IF IsOk(result)
                                        THEN Some(add_filter(DocumentNew, "metadata.seats",
                                                             result.value))
                                        ELSE None])
    /\ UNCHANGED <<MONGODB_CLIENT, bookings, vehicles, inflight>>

ListAlphabet == {"1", "2", "+", ",", " "}

ListTexts == UNION {[1..n -> ListAlphabet] : n \in 0..MaxSortLen}

NextCommaSeparated ==
    \/ /\ response = None
       /\ \E s \in {None} \cup {Some(text) : text \in ListTexts} :
             DeserializeCommaSeparated(s)
    \/ Deliver

SpecCommaSeparated == Init /\ [][NextCommaSeparated]_vars

\* C37: deserialize_comma_separated gives no list for an absent parameter
\* and for one that is empty or all blanks; otherwise, if every item that is
\* not empty once the blanks around it are removed parses, it gives the
\* parsed items in the order written, and if one of them does not parse it
\* gives an error and no filter is built.  A text with no such item, as one
\* of commas only, gives the empty list, for which the builder adds no
\* clause, as for an absent parameter.
C37_CommaSeparatedParsed ==
    Handling("deserialize_comma_separated") =>
        LET s      == response[1].s
            result == response[1].result
            filter == response[1].filter
            blank  == s = None \/ \A i \in 1..Len(s[1]) : s[1][i] \in Whitespace
            n      == Cardinality(KeptStarts(s[1]))
        IN  /\ blank => /\ result = Ok(None)
                        /\ filter = Some(DocumentNew)
            /\ ~blank =>
                  IF \A k \in 1..n : IsOk(parse_u8(ItemCore(s[1], KeptStart(s[1], k))))
                  THEN /\ result.kind = "Ok"
                       /\ result.value /= None
                       /\ Len(result.value[1]) = n
                       /\ \A k \in 1..n :
                             result.value[1][k] = parse_u8(ItemCore(s[1], KeptStart(s[1], k))).value
                       /\ n = 0 => filter = Some(DocumentNew)
                       /\ n > 0 => /\ filter /= None
                                   /\ Keys(filter[1]) = {"metadata.seats"}
                  ELSE /\ result.kind /= "Ok"
                       /\ filter = None

\* C37 witness: "1,+,2", whose second item is no number, gave an error and
\* no filter.
C37_Witness ==
    /\ Handling("deserialize_comma_separated")
    /\ response[1].s = Some(<<"1", ",", "+", ",", "2">>)
    /\ response[1].result.kind /= "Ok"
    /\ response[1].filter = None

\* A text of commas and blanks gave the empty list and no clause.
CommasOnlyGivesEmptyList ==
    (Handling("deserialize_comma_separated") /\ response[1].s = Some(<<",", " ", ",">>)) =>
        /\ response[1].result = Ok(Some(<<>>))
        /\ response[1].filter = Some(DocumentNew)

====
